---- MODULE Spec2Model ----
(***************************************************************************)
(* A model of the client-side adaptation runtime of awstream:              *)
(*   - SimpleProfile (runtime/src/profile.rs): level lookup and the        *)
(*     adjust / advance / decrease operations,                             *)
(*   - ProbeTracker (runtime/src/source.rs): the Prober,                   *)
(*   - Adaptation (runtime/src/adaptation.rs) driven by core_adapt         *)
(*     (runtime/src/client.rs) and the Pacer's action handlers             *)
(*     (runtime/src/source.rs),                                            *)
(*   - the byte counters shared by the Pacer, the Socket sink and the      *)
(*     Monitor (source.rs, socket.rs, controller.rs).                      *)
(*                                                                         *)
(* Bandwidths and rates are f64 in the source; the model uses integers     *)
(* (kbps), on which partial_cmp is the integer order.  Level indices are   *)
(* 0-based as in the source; a sequence element i is levels[i + 1].        *)
(***************************************************************************)
EXTENDS Integers, Sequences, FiniteSets, TLC

VARIABLES
    levels,      \* SimpleProfile.levels: the bandwidth column of the profile
    profile,     \* SimpleProfile {current, adjust_sticky_count} (control-plane copy)
    pcall,       \* observation: the last call made on `profile` and its result
    prober,      \* ProbeTracker {tick_period, target_in_kbps, target_pace, pace, delta}
    adaptation,  \* Adaptation {state, steady_count, startup_congest}
    srcProfile,  \* the Source Adapter's SimpleProfile (VideoSource.profile, owned by the Pacer)
    actionChan,  \* the unbounded AdaptAction channel from core_adapt to the Pacer
    probeChan,   \* the unbounded Signal channel on which the Pacer posts ProbeDone
    cpStatus,    \* "running", or "panicked" once the control-plane closure panicked
    last,        \* observation: the last core_adapt call (state and level before it,
                 \* signal, max_config, action)
    obs,         \* observation: counts of the signals consumed so far
    produced_bytes, \* the AtomicUsize the Pacer adds to (Monitor.produced_bytes)
    consumed_bytes, \* the AtomicUsize the Socket adds to (Monitor.consumed_bytes)
    pacer,       \* the Pacer's Timer handler: ticks, the frames of the running tick
    dataChan,    \* the unbounded AsDatum channel from the Pacer to send_all
    sink,        \* Socket and the send_all that drives it: buffer, held item, position
    wire,        \* the bytes the TCP stream accepted, in order
    monitor,     \* Monitor: queued, and the position in react_to_timer
    monSum,      \* observation: sums of the produced and consumed values the Monitor read
    enqueued,    \* observation: the frames the Pacer sent on the channel, in order
    toEncode,    \* codec: the datums not yet given to AsCodec::encode
    encBuf,      \* codec: the encoder's BytesMut, bytes not yet read by the peer
    decBuf,      \* codec: FramedRead.buffer, the bytes read and not yet decoded
    codecState,  \* codec: AsCodec.state of the decoder
    is_readable, \* codec: FramedRead.is_readable
    encoded,     \* observation: every encode call, its datum and the bytes it wrote
    decoded,     \* observation: every datum decode returned, in order
    lastDecode,  \* observation: the last decode call, its buffer before and its result
    mon,         \* Monitor's estimate: queued, rate, empty_count, and its last fire
    probeObs,    \* observation: the BwProbe frames and bytes the Pacer produced
                 \* since the Prober was last created, started or stopped
    srv,         \* one connection of the server: its two tasks, the cancel sender,
                 \* the receiver's monitors, and what was received since the last tick
    tcp          \* the client's read half as the remote stream sees it: "open",
                 \* "eof" (the server closed) or "error"

profVars == <<levels, profile, pcall>>

ctlVars == <<adaptation, srcProfile, actionChan, probeChan, cpStatus, last, obs>>

dataVars == <<produced_bytes, consumed_bytes, pacer, dataChan, sink, wire,
              monitor, monSum, enqueued>>

codecVars == <<toEncode, encBuf, decBuf, codecState, is_readable, encoded, decoded,
              lastDecode>>

\* the variables the control plane and the Pacer's action handlers leave alone
planeVars == <<dataVars, codecVars, mon, srv, tcp>>

vars == <<levels, profile, pcall, prober, adaptation, srcProfile, actionChan,
          probeChan, cpStatus, last, obs, produced_bytes, consumed_bytes, pacer,
          dataChan, sink, wire, monitor, monSum, enqueued, toEncode, encBuf, decBuf,
          codecState, is_readable, encoded, decoded, lastDecode, mon, probeObs, srv, tcp>>

(***************************************************************************)
(* Bounds of the model.                                                    *)
(***************************************************************************)
\* Profiles of the profile specification have 1..MaxLevels levels.
MaxLevels == 4

\* start_probe targets of the Prober specification are 0..MaxProbeKbps kbps.
MaxProbeKbps == 24

\* core_adapt runs only while fewer than MaxChan actions wait for the Pacer.
MaxChan == 2

\* core_adapt runs only while fewer than MaxProbeDone ProbeDone signals wait.
MaxProbeDone == 2

\* The observation counters stop counting at ObsCap.
ObsCap == 7

\* The Pacer's timer fires at most MaxTicks times in the data-plane specification.
MaxTicks == 2

\* The codec specification encodes at most MaxFrames datums, whose payloads
\* have at most MaxMem bytes.
MaxFrames == 2

\* In the Monitor specification the smoothed rate is halved at most
\* MaxHalvings times and the queue holds at most MaxQueued bytes.
MaxHalvings == 3

MaxQueued == 300000

MaxMem == 1

(***************************************************************************)
(* Program constants.                                                      *)
(***************************************************************************)
ADJUST_STICKY_MAX == 3

STARTUP_CONGEST_ENOUGH == 3

STEADY_ENOUGH == 3

\* PROBE_EXTRA = 1.05, in hundredths
PROBE_EXTRA == 105

INITIAL_CAPACITY == 32 * 1024

BACKPRESSURE_BOUNDARY == INITIAL_CAPACITY

NUM_PROBE_REQUIRED == 5

QUEUE_EMPTY_REQUIRED == 5

\* MONITOR_INTERVAL, in ms
MONITOR_INTERVAL == 100

\* VideoSource::period_in_ms, the Pacer's tick period handed to ProbeTracker::new
period_in_ms == 33

(***************************************************************************)
(* Option<usize>                                                           *)
(***************************************************************************)
None == [some |-> FALSE, v |-> 0]

Some(x) == [some |-> TRUE, v |-> x]

(***************************************************************************)
(* SimpleProfile                                                           *)
(***************************************************************************)
\* slice::binary_search_by over levels[lo..hi) with the comparator
\* |v| v.partial_cmp(&bw): Ok(i) on a hit, Err(insertion point) on a miss.
RECURSIVE binary_search_by(_, _, _, _)
binary_search_by(lv, bw, lo, hi) ==
    IF lo >= hi
    THEN [ok |-> FALSE, i |-> lo]
    ELSE LET mid == lo + ((hi - lo) \div 2)
         IN  IF lv[mid + 1] = bw
             THEN [ok |-> TRUE, i |-> mid]
             ELSE IF lv[mid + 1] < bw
                  THEN binary_search_by(lv, bw, mid + 1, hi)
                  ELSE binary_search_by(lv, bw, lo, mid)

get_level_index_off(lv, bw) ==
    LET pos == binary_search_by(lv, bw, 0, Len(lv))
    IN  pos.i

get_level_index(lv, bw) ==
    LET pos == binary_search_by(lv, bw, 0, Len(lv))
    IN  IF pos.ok
        THEN pos.i
        ELSE IF pos.i = 0 THEN 0 ELSE pos.i - 1

decrease_level(p) ==
    IF p.current > 0
    THEN [p |-> [p EXCEPT !.current = p.current - 1], ret |-> Some(p.current - 1)]
    ELSE [p |-> p, ret |-> None]

advance_level_unguarded(lv, p) ==
    [p |-> [p EXCEPT !.current = p.current + 1], ret |-> Some(p.current + 1)]

advance_level(lv, p) ==
    IF p.current < Len(lv) - 1
    THEN [p |-> [p EXCEPT !.current = p.current + 1], ret |-> Some(p.current + 1)]
    ELSE [p |-> p, ret |-> None]

\* adjust_level with the sticky budget never restored after it ran out
adjust_level_no_restore(lv, p, bw) ==
    LET new_level == get_level_index(lv, bw)
    IN  IF p.current > new_level
        THEN [p |-> [current |-> new_level, adjust_sticky_count |-> ADJUST_STICKY_MAX],
              ret |-> Some(new_level)]
        ELSE IF p.current = new_level
             THEN IF p.adjust_sticky_count = 0
                  THEN decrease_level(p)
                  ELSE [p |-> [p EXCEPT !.adjust_sticky_count = p.adjust_sticky_count - 1],
                        ret |-> None]
             ELSE [p |-> p, ret |-> None]

adjust_level(lv, p, bw) ==
    LET new_level == get_level_index(lv, bw)
    IN  IF p.current > new_level
        THEN [p |-> [current |-> new_level, adjust_sticky_count |-> ADJUST_STICKY_MAX],
              ret |-> Some(new_level)]
        ELSE IF p.current = new_level
             THEN IF p.adjust_sticky_count = 0
                  THEN decrease_level([p EXCEPT !.adjust_sticky_count = ADJUST_STICKY_MAX])
                  ELSE [p |-> [p EXCEPT !.adjust_sticky_count = p.adjust_sticky_count - 1],
                        ret |-> None]
             ELSE [p |-> p, ret |-> None]

next_rate_delta(lv, p) ==
    IF p.current < Len(lv) - 1
    THEN Some(lv[p.current + 2] - lv[p.current + 1])
    ELSE None

\* a profile that never reports the maximum
is_max_never(lv, p) == FALSE

is_max(lv, p) == p.current = Len(lv) - 1

\* Profile::new / Profile::_with_vec: level 0 with a full sticky budget
NewSimpleProfile == [current |-> 0, adjust_sticky_count |-> ADJUST_STICKY_MAX]

(***************************************************************************)
(* ProbeTracker                                                            *)
(***************************************************************************)
ProbeTrackerNew(tick_period) ==
    [tick_period |-> tick_period, target_in_kbps |-> 0,
     target_pace |-> 0, delta |-> 0, pace |-> 0]

\* `size_per_tick as usize`: bytes_per_sec / ticks_per_sec truncated, with
\* bytes_per_sec = kbps * 1000 / 8 and ticks_per_sec = 1000 / tick_period.
\* The target is given in hundredths of a kbps (PROBE_EXTRA = 1.05 is 105/100).
size_per_tick(centi_kbps, tick_period) == (centi_kbps * tick_period) \div 800

start_probe(pr, additional_centi_kbps) ==
    LET target_pace == size_per_tick(additional_centi_kbps, pr.tick_period)
        delta == target_pace \div NUM_PROBE_REQUIRED
    IN  [pr EXCEPT !.target_in_kbps = additional_centi_kbps,
                   !.target_pace = target_pace,
                   !.delta = delta,
                   !.pace = delta]

\* an inc_pace that raises the pace whatever the target
inc_pace_always(pr) ==
    [pr |-> [pr EXCEPT !.pace = pr.pace + pr.delta], ret |-> TRUE]

inc_pace(pr) ==
    IF pr.pace < pr.target_pace
    THEN [pr |-> [pr EXCEPT !.pace = pr.pace + pr.delta], ret |-> TRUE]
    ELSE [pr |-> pr, ret |-> FALSE]

\* a stop_probe that clears the target and keeps the pace
stop_probe_keeps_pace(pr) ==
    [pr EXCEPT !.target_in_kbps = 0, !.target_pace = 0]

\* a stop_probe that keeps the target pace
stop_probe_keeps_target(pr) ==
    [pr EXCEPT !.target_in_kbps = 0, !.pace = 0, !.delta = 0]

stop_probe(pr) ==
    [pr EXCEPT !.target_in_kbps = 0, !.target_pace = 0, !.pace = 0, !.delta = 0]

\* ProbeTracker::next returns Some(bw_probe(pace)) exactly when target_pace > 0
ProberActive(pr) == pr.target_pace > 0

\* stopped: the Prober has been created or stopped and not started since;
\* frames, bytes: the BwProbe frames enqueued and the BwProbe bytes added to
\* produced_bytes since the Prober was last created, started or stopped;
\* levelled: the last start or stop of the Prober was the stop of a ToRate
\* or DecreaseDegradation action
NoProbeObs == [stopped |-> TRUE, frames |-> 0, bytes |-> 0, levelled |-> FALSE]

\* the observation after the handler of a ToRate or DecreaseDegradation action
LevelledProbeObs == [NoProbeObs EXCEPT !.levelled = TRUE]

(***************************************************************************)
(* The data plane: Pacer (TimerSource::spawn, Incoming::Timer), the        *)
(* channel to send_all, the Socket sink, and the Monitor's counters.       *)
(* A frame is [id, kind, level, len], len being its net_len.               *)
(***************************************************************************)
\* let one_second_ticks = 1000 / timer_tick
one_second_ticks == 1000 \div period_in_ms

\* AsDatum::net_len of a datum with `size` bytes of payload: 8 bytes of length
\* prefix and the bincode size of the tag, the vector and the timestamp, which
\* the model fixes at DatumOverhead bytes.
DatumOverhead == 64

\* a net_len that counts the payload only
net_len_payload(size) == size

net_len(size) == size + DatumOverhead

\* the sizes VideoSource::next_frame returns in the data-plane specification
DatumSizes == { 0, 40000 }

\* a net.write accepts all of the buffer, or its first PartialWrite bytes
PartialWrite == 24000

WriteSizes(n) == {n} \cup { k \in {PartialWrite} : k < n }

RECURSIVE BufLen(_)
BufLen(buf) == IF buf = << >> THEN 0 ELSE Head(buf).len + BufLen(Tail(buf))

\* the buffer emptied after a write, whatever the write accepted
split_to_clear(buf, n) == << >>

\* a buffer that keeps the bytes a write accepted
split_to_keep(buf, n) == buf

\* BytesMut::split_to(n): what is left of the buffer after its first n bytes
RECURSIVE split_to_rest(_, _)
split_to_rest(buf, n) ==
    IF n = 0 \/ buf = << >> THEN buf
    ELSE IF Head(buf).len <= n
         THEN split_to_rest(Tail(buf), n - Head(buf).len)
         ELSE <<[Head(buf) EXCEPT !.len = Head(buf).len - n]>> \o Tail(buf)

\* a write that takes the whole buffer whatever n is
split_to_front_all(buf, n) == buf

\* the first n bytes of the buffer
RECURSIVE split_to_front(_, _)
split_to_front(buf, n) ==
    IF n = 0 \/ buf = << >> THEN << >>
    ELSE IF Head(buf).len <= n
         THEN <<Head(buf)>> \o split_to_front(Tail(buf), n - Head(buf).len)
         ELSE <<[Head(buf) EXCEPT !.len = n]>>

\* a sink that never applies backpressure
backpressure_off(buffer) == FALSE

\* start_send: self.buffer.len() >= BACKPRESSURE_BOUNDARY
backpressure(buffer) == BufLen(buffer) >= BACKPRESSURE_BOUNDARY

NoFrame == [id |-> 0, kind |-> "none", level |-> 0, len |-> 0]

\* sink.blocked (observation): the last poll_complete returned NotReady and
\* left the buffer at or above the boundary.
\* sink.pc: "poll" at the top of send_all's loop; "send_flush" in the
\* poll_complete that start_send calls; "flush" in the poll_complete that
\* send_all calls when the channel is empty; "..._wrote" between a net.write
\* and the fetch_add that counts it; "failed" after a write-zero error.
DataInit ==
    /\ produced_bytes = 0
    /\ consumed_bytes = 0
    /\ pacer = [ticks |-> 0, fired |-> 0, todo |-> << >>, counted |-> FALSE,
                status |-> "running"]
    /\ dataChan = << >>
    /\ sink = [buffer |-> << >>, held |-> NoFrame, pc |-> "poll", n |-> 0,
               blocked |-> FALSE]
    /\ wire = << >>
    /\ monitor = [pc |-> "idle", produced |-> 0, consumed |-> 0, queued |-> 0,
                  waiting |-> 0, status |-> "running"]
    /\ monSum = [produced |-> 0, consumed |-> 0, waiting |-> 0]
    /\ enqueued = << >>

(***************************************************************************)
(* Monitor::react_to_timer on the values it read from the two counters.    *)
(* The smoothed rate (an f64, ExponentialSmooth with alpha = 0.5) is kept  *)
(* exactly, as the fraction rate_num / 2^rate_exp in lowest terms, in      *)
(* bytes per interval.                                                     *)
(***************************************************************************)
\* self.queued + produced - consumed on usize.  The model keeps the
\* two's-complement reading of the result: a negative value v stands for the
\* usize 2^64 + v that a build without overflow checks stores.
queued_update(queued, produced, consumed) == queued + produced - consumed

RECURSIVE Pow2(_)
Pow2(k) == IF k = 0 THEN 1 ELSE 2 * Pow2(k - 1)

\* a fraction num / 2^exp in lowest terms
RECURSIVE Reduce(_, _)
Reduce(num, exp) ==
    IF num = 0 THEN [num |-> 0, exp |-> 0]
    ELSE IF exp > 0 /\ num % 2 = 0 THEN Reduce(num \div 2, exp - 1)
    ELSE [num |-> num, exp |-> exp]

\* ExponentialSmooth::add with alpha = 0.5: val = val * 0.5 + sample * 0.5
smooth_add(num, exp, sample) == Reduce(num + sample * Pow2(exp), exp + 1)

NoFire == [produced |-> 0, consumed |-> 0, queued |-> 0, kind |-> "none",
           rate_x100 |-> 0, latency |-> 0, delivered |-> FALSE]

\* Monitor::new; skipped is the .skip(1) the client puts on the stream
MonitorNew ==
    [queued |-> 0, rate_num |-> 0, rate_exp |-> 0, empty_count |-> 0,
     probe_status |-> 0, skipped |-> FALSE, fire |-> NoFire]

\* the latency of a queue that the rate never drains (a division by 0.0)
Infinity == -1

\* a react_to_timer that resets empty_count only when it emits QueueEmpty
react_to_timer_keeps_count(m, produced, consumed) ==
    LET queued == queued_update(m.queued, produced, consumed)
        r == smooth_add(m.rate_num, m.rate_exp, consumed)
        rate_x100 == (r.num * 8 * 100) \div (MONITOR_INTERVAL * Pow2(r.exp))
        latency == IF r.num = 0 THEN (IF queued > 0 THEN Infinity ELSE 0)
                   ELSE (queued * MONITOR_INTERVAL * Pow2(r.exp)) \div r.num
        congest == IF r.num = 0 THEN queued > 0
                   ELSE queued * MONITOR_INTERVAL * Pow2(r.exp) > r.num
        probe_done == m.probe_status > 0
                        /\ r.num * 8 > m.probe_status * MONITOR_INTERVAL * Pow2(r.exp)
        kind == IF congest THEN "QueueCongest"
                ELSE IF probe_done THEN "ProbeDone"
                ELSE IF m.empty_count + 1 > QUEUE_EMPTY_REQUIRED THEN "QueueEmpty"
                ELSE "None"
    IN  [queued |-> queued, rate_num |-> r.num, rate_exp |-> r.exp,
         empty_count |-> IF kind = "QueueEmpty" THEN 0 ELSE m.empty_count + 1,
         probe_status |-> IF kind = "ProbeDone" THEN 0 ELSE m.probe_status,
         skipped |-> m.skipped \/ kind # "None",
         fire |-> [produced |-> produced, consumed |-> consumed, queued |-> m.queued,
                   kind |-> kind,
                   rate_x100 |-> IF kind = "QueueCongest" THEN rate_x100 ELSE 0,
                   latency |-> IF kind = "QueueCongest" THEN latency ELSE 0,
                   delivered |-> m.skipped /\ kind # "None"]]

\* Monitor::react_to_timer with the two values read: the Monitor after the
\* fire; fire.kind is the signal it returns ("None" for no signal), with the
\* rate in hundredths of kbps and the latency in ms, both rounded down.
\*   rate = val * 8 / MONITOR_INTERVAL;  latency = queued * 8 / rate
\* With rate = 0.0 the latency is infinite for queued > 0 and NaN for
\* queued = 0, and NaN > 1.0 is false.
react_to_timer(m, produced, consumed) ==
    LET queued == queued_update(m.queued, produced, consumed)
        r == smooth_add(m.rate_num, m.rate_exp, consumed)
        rate_x100 == (r.num * 8 * 100) \div (MONITOR_INTERVAL * Pow2(r.exp))
        latency == IF r.num = 0 THEN (IF queued > 0 THEN Infinity ELSE 0)
                   ELSE (queued * MONITOR_INTERVAL * Pow2(r.exp)) \div r.num
        congest == IF r.num = 0 THEN queued > 0
                   ELSE queued * MONITOR_INTERVAL * Pow2(r.exp) > r.num
        probe_done == m.probe_status > 0
                        /\ r.num * 8 > m.probe_status * MONITOR_INTERVAL * Pow2(r.exp)
        kind == IF congest THEN "QueueCongest"
                ELSE IF probe_done THEN "ProbeDone"
                ELSE IF m.empty_count + 1 > QUEUE_EMPTY_REQUIRED THEN "QueueEmpty"
                ELSE "None"
    IN  [queued |-> queued, rate_num |-> r.num, rate_exp |-> r.exp,
         empty_count |-> IF kind = "None" THEN m.empty_count + 1 ELSE 0,
         probe_status |-> IF kind = "ProbeDone" THEN 0 ELSE m.probe_status,
         skipped |-> m.skipped \/ kind # "None",
         fire |-> [produced |-> produced, consumed |-> consumed, queued |-> m.queued,
                   kind |-> kind,
                   rate_x100 |-> IF kind = "QueueCongest" THEN rate_x100 ELSE 0,
                   latency |-> IF kind = "QueueCongest" THEN latency ELSE 0,
                   delivered |-> m.skipped /\ kind # "None"]]

(***************************************************************************)
(* AsDatum and AsCodec.  A byte is a number in 0..255 and a buffer a       *)
(* sequence of bytes.  bincode (Infinite) writes an enum variant as its    *)
(* index in a little-endian u32 followed by its fields, a usize as a       *)
(* little-endian u64, a Vec<u8> or a string as a u64 length and the bytes. *)
(* The len field is #[serde(skip)].                                        *)
(***************************************************************************)
RECURSIVE LE(_, _)
LE(n, k) == IF k = 0 THEN << >> ELSE <<n % 256>> \o LE(n \div 256, k - 1)

RECURSIVE FromLE(_)
FromLE(bs) == IF bs = << >> THEN 0 ELSE Head(bs) + 256 * FromLE(Tail(bs))

\* put_u64::<BigEndian>
RECURSIVE BE(_, _)
BE(n, k) == IF k = 0 THEN << >> ELSE BE(n \div 256, k - 1) \o <<n % 256>>

\* read_u64::<BigEndian>
RECURSIVE FromBE(_, _)
FromBE(bs, acc) == IF bs = << >> THEN acc ELSE FromBE(Tail(bs), acc * 256 + Head(bs))

Take(bs, n) == SubSeq(bs, 1, n)

Drop(bs, n) == SubSeq(bs, n + 1, Len(bs))

\* the variant index of AsDatumType
TagIndex(tag) ==
    CASE tag = "Live" -> 0
      [] tag = "Raw" -> 1
      [] tag = "Dummy" -> 2
      [] tag = "LatencyProbe" -> 3
      [] tag = "ReceiverCongest" -> 4

TagOf(i) ==
    CASE i = 0 -> "Live"
      [] i = 1 -> "Raw"
      [] i = 2 -> "Dummy"
      [] i = 3 -> "LatencyProbe"
      [] i = 4 -> "ReceiverCongest"
      [] OTHER -> "invalid"

\* The timestamp is a DateTime<Utc>, which serde writes as text: the model
\* keeps its seconds and milliseconds, written as the decimal seconds, then
\* "." and three digits when the milliseconds are not zero, then "Z".
RECURSIVE Digits(_)
Digits(n) == IF n < 10 THEN <<48 + n>> ELSE Digits(n \div 10) \o <<48 + (n % 10)>>

Digits3(n) == <<48 + (n \div 100), 48 + ((n \div 10) % 10), 48 + (n % 10)>>

\* a timestamp written with its seconds only
FormatTs_seconds(ts) == Digits(ts.secs) \o <<90>>

FormatTs(ts) ==
    Digits(ts.secs) \o (IF ts.millis = 0 THEN << >> ELSE <<46>> \o Digits3(ts.millis))
        \o <<90>>

IsDigits(cs) == cs # << >> /\ \A i \in 1..Len(cs) : cs[i] \in 48..57

RECURSIVE ParseNat(_, _)
ParseNat(cs, acc) ==
    IF cs = << >> THEN acc ELSE ParseNat(Tail(cs), acc * 10 + (Head(cs) - 48))

NoTs == [secs |-> 0, millis |-> 0]

ParseTs(cs) ==
    IF cs = << >> \/ cs[Len(cs)] # 90 THEN [ok |-> FALSE, ts |-> NoTs]
    ELSE LET body == Take(cs, Len(cs) - 1)
             dots == { i \in 1..Len(body) : body[i] = 46 }
         IN  IF dots = {}
             THEN IF IsDigits(body)
                  THEN [ok |-> TRUE, ts |-> [secs |-> ParseNat(body, 0), millis |-> 0]]
                  ELSE [ok |-> FALSE, ts |-> NoTs]
             ELSE LET d == CHOOSE i \in dots : \A j \in dots : i <= j
                      whole == Take(body, d - 1)
                      frac == Drop(body, d)
                  IN  IF IsDigits(whole) /\ IsDigits(frac) /\ Len(frac) = 3
                      THEN [ok |-> TRUE,
                            ts |-> [secs |-> ParseNat(whole, 0),
                                    millis |-> ParseNat(frac, 0)]]
                      ELSE [ok |-> FALSE, ts |-> NoTs]

\* bincode::serialize_into(&d): t, mem, ts in the order of the struct
Serialize(d) ==
    LE(TagIndex(d.t.tag), 4)
        \o (IF d.t.tag = "Live" THEN LE(d.t.level, 8) \o LE(d.t.frame_num, 8) ELSE << >>)
        \o LE(Len(d.mem), 8) \o d.mem
        \o LE(Len(FormatTs(d.ts)), 8) \o FormatTs(d.ts)

\* bincode::serialized_size(&d)
serialized_size(d) == Len(Serialize(d))

NoType == [tag |-> "none", level |-> 0, frame_num |-> 0]

NoDatum == [t |-> NoType, mem |-> << >>, ts |-> NoTs, len |-> 0]

\* bincode::deserialize_from(payload): an error when the payload ends early
\* or holds an unknown variant or a malformed timestamp; bytes after the
\* struct are not looked at
Deserialize(bs) ==
    IF Len(bs) < 4 \/ TagOf(FromLE(Take(bs, 4))) = "invalid"
    THEN [ok |-> FALSE, datum |-> NoDatum]
    ELSE LET tag == TagOf(FromLE(Take(bs, 4)))
             b1 == Drop(bs, 4)
             live == tag = "Live"
         IN  IF live /\ Len(b1) < 16 THEN [ok |-> FALSE, datum |-> NoDatum]
             ELSE LET t == [tag |-> tag,
                            level |-> IF live THEN FromLE(Take(b1, 8)) ELSE 0,
                            frame_num |-> IF live THEN FromLE(SubSeq(b1, 9, 16)) ELSE 0]
                      b2 == IF live THEN Drop(b1, 16) ELSE b1
                  IN  IF Len(b2) < 8 \/ Len(b2) - 8 < FromLE(Take(b2, 8))
                      THEN [ok |-> FALSE, datum |-> NoDatum]
                      ELSE LET n == FromLE(Take(b2, 8))
                               mem == SubSeq(b2, 9, 8 + n)
                               b3 == Drop(b2, 8 + n)
                           IN  IF Len(b3) < 8 \/ Len(b3) - 8 < FromLE(Take(b3, 8))
                               THEN [ok |-> FALSE, datum |-> NoDatum]
                               ELSE LET m == FromLE(Take(b3, 8))
                                        p == ParseTs(SubSeq(b3, 9, 8 + m))
                                    IN  IF p.ok
                                        THEN [ok |-> TRUE,
                                              datum |-> [t |-> t, mem |-> mem,
                                                         ts |-> p.ts, len |-> 0]]
                                        ELSE [ok |-> FALSE, datum |-> NoDatum]

\* AsDatum::update_len
update_len(d) == [d EXCEPT !.len = serialized_size(d)]

\* AsDatum::net_len: the length field and the size of the u64 before it
AsDatum_net_len(d) == d.len + 8

\* AsDatum::new(level, frame_num, data)
AsDatumNew(level, frame_num, data, now) ==
    update_len([t |-> [tag |-> "Live", level |-> level, frame_num |-> frame_num],
                mem |-> data, ts |-> now, len |-> 0])

Zeros(n) == [i \in 1..n |-> 0]

\* AsDatum::bw_probe(size)
bw_probe(size, now) ==
    update_len([t |-> [tag |-> "Dummy", level |-> 0, frame_num |-> 0],
                mem |-> Zeros(size), ts |-> now, len |-> 0])

\* AsDatum::latency_probe()
latency_probe(now) ==
    update_len([t |-> [tag |-> "LatencyProbe", level |-> 0, frame_num |-> 0],
                mem |-> << >>, ts |-> now, len |-> 0])

\* ReceiverReport::to_mem: three f64, eight bytes each; the model writes the
\* three numbers as whole numbers
to_mem(rr) == LE(rr.latency, 8) \o LE(rr.goodput, 8) \o LE(rr.throughput, 8)

\* ReceiverReport::from_mem
from_mem(mem) ==
    IF Len(mem) < 24 THEN [ok |-> FALSE, rr |-> [latency |-> 0, goodput |-> 0, throughput |-> 0]]
    ELSE [ok |-> TRUE,
          rr |-> [latency |-> FromLE(SubSeq(mem, 1, 8)),
                  goodput |-> FromLE(SubSeq(mem, 9, 16)),
                  throughput |-> FromLE(SubSeq(mem, 17, 24))]]

\* AsDatum::ack(rr)
ack(rr, now) ==
    update_len([t |-> [tag |-> "ReceiverCongest", level |-> 0, frame_num |-> 0],
                mem |-> to_mem(rr), ts |-> now, len |-> 0])

\* AsCodec::encode(d, buf): the buffer after the call
encode(d, buf) == buf \o BE(d.len, 8) \o Serialize(d)

AwaitLen == [kind |-> "Len", len |-> 0]

AwaitPayload(len) == [kind |-> "Payload", len |-> len]

\* Payload arms that go back to Len when the payload is short
decode_payload_forgets(len, buf) ==
    IF Len(buf) < len
    THEN [state |-> AwaitLen, buf |-> buf, ret |-> "None", datum |-> NoDatum]
    ELSE LET r == Deserialize(Take(buf, len))
         IN  IF r.ok
             THEN [state |-> AwaitLen, buf |-> Drop(buf, len), ret |-> "Some",
                   datum |-> [r.datum EXCEPT !.len = len]]
             ELSE [state |-> AwaitLen, buf |-> Drop(buf, len), ret |-> "Err",
                   datum |-> NoDatum]

\* the Payload arms of AsCodec::decode
decode_payload(len, buf) ==
    IF Len(buf) < len
    THEN [state |-> AwaitPayload(len), buf |-> buf, ret |-> "None", datum |-> NoDatum]
    ELSE LET r == Deserialize(Take(buf, len))
         IN  IF r.ok
             THEN [state |-> AwaitLen, buf |-> Drop(buf, len), ret |-> "Some",
                   datum |-> [r.datum EXCEPT !.len = len]]
             ELSE [state |-> AwaitLen, buf |-> Drop(buf, len), ret |-> "Err",
                   datum |-> NoDatum]

\* a decode that leaves the length in the buffer while the payload is short
decode_keeps_len(state, buf) ==
    IF state.kind = "Len"
    THEN IF Len(buf) < 8
         THEN [state |-> state, buf |-> buf, ret |-> "None", datum |-> NoDatum]
         ELSE IF Len(buf) - 8 < FromBE(Take(buf, 8), 0)
              THEN [state |-> AwaitPayload(FromBE(Take(buf, 8), 0)), buf |-> buf,
                    ret |-> "None", datum |-> NoDatum]
              ELSE decode_payload(FromBE(Take(buf, 8), 0), Drop(buf, 8))
    ELSE decode_payload(state.len, buf)

\* AsCodec::decode(buf): the codec state and the buffer after the call, and
\* what it returns: Ok(None), Ok(Some(datum)) or Err
decode(state, buf) ==
    IF state.kind = "Len"
    THEN IF Len(buf) < 8
         THEN [state |-> state, buf |-> buf, ret |-> "None", datum |-> NoDatum]
         ELSE decode_payload(FromBE(Take(buf, 8), 0), Drop(buf, 8))
    ELSE decode_payload(state.len, buf)

NoDecode == [state |-> AwaitLen, buf |-> << >>, ret |-> "none", datum |-> NoDatum,
             after |-> << >>, afterState |-> AwaitLen]

CodecInit ==
    /\ toEncode = << >>
    /\ encBuf = << >>
    /\ decBuf = << >>
    /\ codecState = AwaitLen
    /\ is_readable = FALSE
    /\ encoded = << >>
    /\ decoded = << >>
    /\ lastDecode = NoDecode

(***************************************************************************)
(* The server's side of one connection (handle_conn): BwMonitor,           *)
(* LatencyMonitor, and the state of its two tasks.                         *)
(***************************************************************************)
\* BwMonitor::new
BwMonitorNew == [sample |-> 0, rate |-> 0]

\* BwMonitor::add
bw_add(m, sample) == [m EXCEPT !.sample = m.sample + sample]

\* BwMonitor::update(time_in_ms): rate = sample * 8 / time_in_ms; the model
\* keeps the rate times time_in_ms
bw_update(m) == [sample |-> 0, rate |-> m.sample * 8]

\* LatencyMonitor::new; the model keeps the number of samples, and of the
\* rate whether it is the mean of some samples or 0.0 / 0 (NaN)
LatencyMonitorNew == [samples |-> 0, rate |-> "zero"]

\* LatencyMonitor::update
latency_update(m) == [samples |-> 0, rate |-> IF m.samples = 0 THEN "nan" ELSE "mean"]

FrameKinds == {"Live", "Dummy", "LatencyProbe", "ReceiverCongest"}

\* time_diff_in_ms(a, b): the difference of the whole seconds, in ms, plus
\* the difference of the milliseconds within the second; clock readings are
\* in microseconds
time_diff_in_ms(a, b) ==
    (a \div 1000000 - b \div 1000000) * 1000
    + ((a % 1000000) \div 1000 - (b % 1000000) \div 1000)

\* a Reporter that reports again as soon as 500 ms have passed
report_due_at_500(now, last_report_time) ==
    time_diff_in_ms(now, last_report_time) >= 500

\* Reporter::report: time_since_last_report > 500.0
report_due(now, last_report_time) ==
    time_diff_in_ms(now, last_report_time) > 500

\* StreamingStat::add then min(), of a window that starts as INFINITY and
\* never wraps within a run of the model
stat_min(min, sample) ==
    IF min = Infinity \/ sample < min THEN sample ELSE min

\* Reporter::latency_is_high: ideal = net_delay + len / rate, the factor is
\* chosen by `ideal as u64`, and the result is current_latency > factor *
\* ideal.  rate is the BwMonitor's rate times 1000.  With an infinite
\* net_delay or a rate of 0.0 the bound is infinite (or NaN) under every
\* factor, and the comparison is false.
latency_is_high(net_delay, rate, len, current_latency) ==
    IF net_delay = Infinity \/ rate = 0 THEN FALSE
    ELSE LET num == net_delay * rate + len * 1000
             ideal == num \div rate
             twice == IF ideal <= 100 THEN 20
                      ELSE IF ideal <= 200 THEN 10
                      ELSE IF ideal <= 300 THEN 8
                      ELSE IF ideal <= 500 THEN 6
                      ELSE 3
         IN  current_latency * rate * 2 > twice * num

\* chrono::Utc::now() when Reporter::new runs, in microseconds
CreatedAt == 600

\* conn: process_connection is "open", "ended" (end of stream) or "failed"
\* stopper: tick_stopper is "held" by the and_then closure, "sent", or "dropped"
\* interval: the estimate_throughput task is "running" or "done"
\* lateTicks: ticks the interval emitted after process_connection ended
\* seen: the bytes of each kind received since the last tick
\* now, steps: the receiver's clock in microseconds, and the times it advanced
\* net_min: reporter.net_latency.min()
\* reports: the ReceiverReports the Reporter's sink accepted, each with the
\* clock reading and the values latency_is_high was called with
ServerInit ==
    [conn |-> "open", stopper |-> "held", interval |-> "running",
     frames |-> 0, ticks |-> 0, lateTicks |-> 0,
     goodput |-> BwMonitorNew, throughput |-> BwMonitorNew,
     latency_mon |-> LatencyMonitorNew, net_latency |-> 0,
     seen |-> [k \in FrameKinds |-> 0],
     now |-> CreatedAt, steps |-> 0, last_report_time |-> CreatedAt,
     net_min |-> Infinity, reports |-> << >>]

(***************************************************************************)
(* Adaptation: signals, actions and the transition function                *)
(***************************************************************************)
\* Signal; the latency carried by the congestion signals is ignored by transit
QueueCongest(rate) == [kind |-> "QueueCongest", rate |-> rate]

QueueEmpty == [kind |-> "QueueEmpty", rate |-> 0]

RemoteCongest(rate) == [kind |-> "RemoteCongest", rate |-> rate]

ProbeDone == [kind |-> "ProbeDone", rate |-> 0]

IsCongest(sig) == sig.kind \in {"QueueCongest", "RemoteCongest"}

\* Action
NoOp == [kind |-> "NoOp", rate |-> 0]

AdvanceConfig == [kind |-> "AdvanceConfig", rate |-> 0]

AdjustConfig(rate) == [kind |-> "AdjustConfig", rate |-> rate]

StartProbe == [kind |-> "StartProbe", rate |-> 0]

IncreaseProbePace == [kind |-> "IncreaseProbePace", rate |-> 0]

StopProbe == [kind |-> "StopProbe", rate |-> 0]

\* the `_ => unimplemented!{}` arm of transit: the call panics
Unimplemented == [kind |-> "unimplemented", rate |-> 0]

AdaptationDefault == [state |-> "Startup", steady_count |-> 0, startup_congest |-> 0]

\* transit_startup entering Steady as soon as it advances
transit_startup_eager(ad, sig, max_config) ==
    IF sig.kind = "QueueEmpty"
    THEN IF ~max_config
         THEN [ad |-> [ad EXCEPT !.state = "Steady"], action |-> AdvanceConfig]
         ELSE [ad |-> [ad EXCEPT !.state = "Steady"], action |-> NoOp]
    ELSE IF IsCongest(sig)
         THEN IF ad.startup_congest > STARTUP_CONGEST_ENOUGH
              THEN [ad |-> [ad EXCEPT !.startup_congest = 0, !.state = "Degrade"],
                    action |-> AdjustConfig(sig.rate)]
              ELSE [ad |-> [ad EXCEPT !.startup_congest = ad.startup_congest + 1],
                    action |-> NoOp]
         ELSE [ad |-> ad, action |-> Unimplemented]

\* the arms of transit whose state is Startup
transit_startup(ad, sig, max_config) ==
    IF sig.kind = "QueueEmpty"
    THEN IF ~max_config
         THEN [ad |-> ad, action |-> AdvanceConfig]
         ELSE [ad |-> [ad EXCEPT !.state = "Steady"], action |-> NoOp]
    ELSE IF IsCongest(sig)
         THEN IF ad.startup_congest > STARTUP_CONGEST_ENOUGH
              THEN [ad |-> [ad EXCEPT !.startup_congest = 0, !.state = "Degrade"],
                    action |-> AdjustConfig(sig.rate)]
              ELSE [ad |-> [ad EXCEPT !.startup_congest = ad.startup_congest + 1],
                    action |-> NoOp]
         ELSE [ad |-> ad, action |-> Unimplemented]

\* the arms of transit whose state is Degrade
transit_degrade(ad, sig, max_config) ==
    IF IsCongest(sig)
    THEN [ad |-> [ad EXCEPT !.state = "Degrade"], action |-> AdjustConfig(sig.rate)]
    ELSE IF sig.kind = "QueueEmpty"
         THEN [ad |-> [ad EXCEPT !.state = "Steady"], action |-> NoOp]
         ELSE [ad |-> ad, action |-> Unimplemented]

\* the arms of transit whose state is Steady
transit_steady(ad, sig, max_config) ==
    IF IsCongest(sig)
    THEN [ad |-> [ad EXCEPT !.steady_count = 0, !.state = "Degrade"],
          action |-> AdjustConfig(sig.rate)]
    ELSE IF sig.kind = "QueueEmpty"
         THEN IF ~max_config
              THEN IF ad.steady_count > STEADY_ENOUGH
                   THEN [ad |-> [ad EXCEPT !.steady_count = 0, !.state = "Probe"],
                         action |-> StartProbe]
                   ELSE [ad |-> [ad EXCEPT !.steady_count = ad.steady_count + 1],
                         action |-> NoOp]
              ELSE [ad |-> ad, action |-> NoOp]
         ELSE [ad |-> ad, action |-> Unimplemented]

\* transit_probe reacting to congestion as Steady does
transit_probe_degrades(ad, sig, max_config) ==
    IF IsCongest(sig)
    THEN [ad |-> [ad EXCEPT !.state = "Degrade"], action |-> AdjustConfig(sig.rate)]
    ELSE IF sig.kind = "ProbeDone"
         THEN [ad |-> [ad EXCEPT !.state = "Steady"], action |-> AdvanceConfig]
         ELSE [ad |-> ad, action |-> IncreaseProbePace]

\* transit_probe leaving Probe on congestion with no action
transit_probe_leaves_probe_on(ad, sig, max_config) ==
    IF IsCongest(sig)
    THEN [ad |-> [ad EXCEPT !.state = "Steady"], action |-> NoOp]
    ELSE IF sig.kind = "ProbeDone"
         THEN [ad |-> [ad EXCEPT !.state = "Steady"], action |-> AdvanceConfig]
         ELSE [ad |-> ad, action |-> IncreaseProbePace]

\* transit_probe raising the level on QueueEmpty
transit_probe_advances(ad, sig, max_config) ==
    IF IsCongest(sig)
    THEN [ad |-> [ad EXCEPT !.state = "Steady"], action |-> StopProbe]
    ELSE IF sig.kind = "ProbeDone"
         THEN [ad |-> [ad EXCEPT !.state = "Steady"], action |-> AdvanceConfig]
         ELSE [ad |-> ad, action |-> AdvanceConfig]

\* transit_probe starting a probe again on QueueEmpty
transit_probe_restarts(ad, sig, max_config) ==
    IF IsCongest(sig)
    THEN [ad |-> [ad EXCEPT !.state = "Steady"], action |-> StopProbe]
    ELSE IF sig.kind = "ProbeDone"
         THEN [ad |-> [ad EXCEPT !.state = "Steady"], action |-> AdvanceConfig]
         ELSE [ad |-> ad, action |-> StartProbe]

\* the arms of transit whose state is Probe
transit_probe(ad, sig, max_config) ==
    IF IsCongest(sig)
    THEN [ad |-> [ad EXCEPT !.state = "Steady"], action |-> StopProbe]
    ELSE IF sig.kind = "ProbeDone"
         THEN [ad |-> [ad EXCEPT !.state = "Steady"], action |-> AdvanceConfig]
         ELSE [ad |-> ad, action |-> IncreaseProbePace]

transit(ad, sig, max_config) ==
    CASE ad.state = "Startup" -> transit_startup(ad, sig, max_config)
      [] ad.state = "Degrade" -> transit_degrade(ad, sig, max_config)
      [] ad.state = "Steady"  -> transit_steady(ad, sig, max_config)
      [] ad.state = "Probe"   -> transit_probe(ad, sig, max_config)

(***************************************************************************)
(* AdaptAction: what core_adapt sends to the Pacer                         *)
(***************************************************************************)
\* a ToRate action that carries no rate
AdaptToRate_zero(rate) == [kind |-> "ToRate", arg |-> 0]

AdaptToRate(rate) == [kind |-> "ToRate", arg |-> rate]

AdaptDecreaseDegradation == [kind |-> "DecreaseDegradation", arg |-> 0]

\* the target is in hundredths of a kbps
AdaptStartProbe(target) == [kind |-> "StartProbe", arg |-> target]

AdaptIncreaseProbePace == [kind |-> "IncreaseProbePace", arg |-> 0]

AdaptStopProbe == [kind |-> "StopProbe", arg |-> 0]

Min(a, b) == IF a <= b THEN a ELSE b

(***************************************************************************)
(* The client specification: the control-plane loop (core_adapt on each    *)
(* signal of monitor.select(probing).select(remote)) and the Pacer's       *)
(* handlers of the actions it is sent.                                     *)
(***************************************************************************)
CtlProfiles == { <<500>>, <<500, 1000>>, <<500, 1000, 2000>> }

CtlRates == { 300, 1000, 2500 }

\* no call made on the profile yet
NoCall == [op |-> "none", bw |-> 0, idx |-> 0, before |-> 0, ret |-> None, run |-> 0]

NoSignal == [kind |-> "none", rate |-> 0]

NoLast == [state |-> "Startup", level |-> 0, signal |-> NoSignal, max |-> FALSE,
           action |-> NoOp]

\* startupCongest: congestion signals consumed in Startup (Startup is never re-entered)
\* steadyEmpty: QueueEmpty signals consumed in a row in Steady, ending with the last signal
\* qePrefix: n when the n signals consumed so far were all QueueEmpty, each
\*           consumed with no action waiting for the Pacer; -1 otherwise
\* probeQE: n when n QueueEmpty signals were consumed in Probe since a
\*          StartProbe issued with both channels empty, each with no action
\*          waiting for the Pacer; -1 otherwise
NoObs == [startupCongest |-> 0, steadyEmpty |-> 0, qePrefix |-> 0, probeQE |-> -1]

Init ==
    /\ levels \in CtlProfiles
    /\ profile = NewSimpleProfile
    /\ pcall = NoCall
    /\ prober = ProbeTrackerNew(period_in_ms)
    /\ adaptation = AdaptationDefault
    /\ srcProfile = NewSimpleProfile
    /\ actionChan = << >>
    /\ probeChan = << >>
    /\ cpStatus = "running"
    /\ last = NoLast
    /\ obs = NoObs
    /\ DataInit
    /\ CodecInit
    /\ mon = MonitorNew
    /\ probeObs = NoProbeObs
    /\ srv = ServerInit
    /\ tcp = "open"

Observe(sig, action) ==
    [startupCongest |->
        IF adaptation.state = "Startup" /\ IsCongest(sig)
        THEN Min(obs.startupCongest + 1, ObsCap) ELSE obs.startupCongest,
     steadyEmpty |->
        IF adaptation.state = "Steady" /\ sig.kind = "QueueEmpty"
        THEN Min(obs.steadyEmpty + 1, ObsCap) ELSE 0,
     qePrefix |->
        IF /\ obs.qePrefix >= 0 /\ obs.qePrefix < ObsCap
           /\ sig.kind = "QueueEmpty" /\ actionChan = << >>
        THEN obs.qePrefix + 1 ELSE -1,
     probeQE |->
        IF action.kind = "StartProbe"
        THEN IF actionChan = << >> /\ probeChan = << >> THEN 0 ELSE -1
        ELSE IF adaptation.state = "Probe" /\ obs.probeQE >= 0
             THEN IF sig.kind = "ProbeDone" THEN obs.probeQE
                  ELSE IF /\ sig.kind = "QueueEmpty" /\ actionChan = << >>
                          /\ obs.probeQE < ObsCap
                       THEN obs.probeQE + 1 ELSE -1
             ELSE -1]

\* core_adapt(signal, adaptation, profile, src_ctrl); block_send on the
\* unbounded channel completes at once.  A panic (unimplemented!{}, or the
\* expect on next_rate_delta) ends the control plane.
core_adapt(sig) ==
    LET max_config == is_max(levels, profile)
        t == transit(adaptation, sig, max_config)
        action == t.action
    IN  /\ adaptation' = t.ad
        /\ last' = [state |-> adaptation.state, level |-> profile.current,
                    signal |-> sig, max |-> max_config, action |-> action]
        /\ obs' = Observe(sig, action)
        /\ CASE action.kind = "NoOp" ->
                  UNCHANGED <<profile, actionChan, cpStatus>>
             [] action.kind = "AdjustConfig" ->
                  /\ profile' = adjust_level(levels, profile, action.rate).p
                  /\ actionChan' = Append(actionChan, AdaptToRate(action.rate))
                  /\ UNCHANGED cpStatus
             [] action.kind = "AdvanceConfig" ->
                  /\ profile' = advance_level(levels, profile).p
                  /\ actionChan' = Append(actionChan, AdaptDecreaseDegradation)
                  /\ UNCHANGED cpStatus
             [] action.kind = "StartProbe" ->
                  LET delta == next_rate_delta(levels, profile)
                  IN  IF delta.some
                      THEN /\ actionChan' =
                                Append(actionChan, AdaptStartProbe(PROBE_EXTRA * delta.v))
                           /\ UNCHANGED <<profile, cpStatus>>
                      ELSE /\ cpStatus' = "panicked"
                           /\ UNCHANGED <<profile, actionChan>>
             [] action.kind = "IncreaseProbePace" ->
                  /\ actionChan' = Append(actionChan, AdaptIncreaseProbePace)
                  /\ UNCHANGED <<profile, cpStatus>>
             [] action.kind = "StopProbe" ->
                  /\ actionChan' = Append(actionChan, AdaptStopProbe)
                  /\ UNCHANGED <<profile, cpStatus>>
             [] action.kind = "unimplemented" ->
                  /\ cpStatus' = "panicked"
                  /\ UNCHANGED <<profile, actionChan>>

ControlReady ==
    /\ cpStatus = "running"
    /\ Len(actionChan) < MaxChan
    /\ Len(probeChan) < MaxProbeDone

\* a signal of the Monitor stream
ControlMonitor(sig) ==
    /\ ControlReady
    /\ core_adapt(sig)
    /\ UNCHANGED <<levels, pcall, prober, srcProfile, probeChan, planeVars, probeObs>>

\* a ReceiverReport read from the server: RemoteCongest(throughput, latency)
ControlRemote(rate) ==
    /\ ControlReady
    /\ tcp = "open"
    /\ core_adapt(RemoteCongest(rate))
    /\ UNCHANGED <<levels, pcall, prober, srcProfile, probeChan, planeVars, probeObs>>

\* a ProbeDone the Pacer posted
ControlProbing ==
    /\ cpStatus = "running"
    /\ Len(actionChan) < MaxChan
    /\ probeChan # << >>
    /\ core_adapt(Head(probeChan))
    /\ probeChan' = Tail(probeChan)
    /\ UNCHANGED <<levels, pcall, prober, srcProfile, planeVars, probeObs>>

\* the next Incoming item is an Adapt action of this kind; the handler of a
\* tick runs to its end before the next item is taken
PacerHas(kind) ==
    /\ pacer.status = "running"
    /\ pacer.todo = << >>
    /\ actionChan # << >>
    /\ Head(actionChan).kind = kind

\* Incoming::Adapt(AdaptAction::ToRate(rate))
PacerToRate ==
    /\ PacerHas("ToRate")
    /\ prober' = stop_probe(prober)
    /\ probeObs' = LevelledProbeObs
    /\ srcProfile' = adjust_level(levels, srcProfile, Head(actionChan).arg).p
    /\ actionChan' = Tail(actionChan)
    /\ UNCHANGED <<profVars, adaptation, probeChan, cpStatus, last, obs, planeVars>>

\* Incoming::Adapt(AdaptAction::DecreaseDegradation)
PacerDecreaseDegradation ==
    /\ PacerHas("DecreaseDegradation")
    /\ prober' = stop_probe(prober)
    /\ probeObs' = LevelledProbeObs
    /\ srcProfile' = advance_level(levels, srcProfile).p
    /\ actionChan' = Tail(actionChan)
    /\ UNCHANGED <<profVars, adaptation, probeChan, cpStatus, last, obs, planeVars>>

\* Incoming::Adapt(AdaptAction::StartProbe(target_in_kbps))
PacerStartProbe ==
    /\ PacerHas("StartProbe")
    /\ prober' = start_probe(prober, Head(actionChan).arg)
    /\ actionChan' = Tail(actionChan)
    /\ probeObs' = [stopped |-> FALSE, frames |-> 0, bytes |-> 0, levelled |-> FALSE]
    /\ UNCHANGED <<profVars, adaptation, srcProfile, probeChan, cpStatus, last, obs, planeVars>>

\* Incoming::Adapt(AdaptAction::IncreaseProbePace)
PacerIncreaseProbePace ==
    /\ PacerHas("IncreaseProbePace")
    /\ LET r == inc_pace(prober)
       IN  /\ prober' = r.pr
           /\ probeChan' = IF r.ret THEN probeChan ELSE Append(probeChan, ProbeDone)
    /\ actionChan' = Tail(actionChan)
    /\ UNCHANGED <<profVars, adaptation, srcProfile, cpStatus, last, obs, planeVars, probeObs>>

\* Incoming::Adapt(AdaptAction::StopProbe)
PacerStopProbe ==
    /\ PacerHas("StopProbe")
    /\ prober' = stop_probe(prober)
    /\ probeObs' = NoProbeObs
    /\ actionChan' = Tail(actionChan)
    /\ UNCHANGED <<profVars, adaptation, srcProfile, probeChan, cpStatus, last, obs, planeVars>>

Next ==
    \/ ControlMonitor(QueueEmpty)
    \/ \E rate \in CtlRates : ControlMonitor(QueueCongest(rate))
    \/ \E rate \in CtlRates : ControlRemote(rate)
    \/ ControlProbing
    \/ PacerToRate
    \/ PacerDecreaseDegradation
    \/ PacerStartProbe
    \/ PacerIncreaseProbePace
    \/ PacerStopProbe

Spec == Init /\ [][Next]_vars

(***************************************************************************)
(* The fair client specification: the client specification in which the    *)
(* control plane consumes every signal that is ready and the Pacer handles *)
(* every action it was sent.  The Monitor's timer never ends, so a         *)
(* QueueEmpty keeps coming while the queue stays empty.                    *)
(***************************************************************************)
\* the Pacer handles the next Adapt action
PacerAdapt ==
    \/ PacerToRate
    \/ PacerDecreaseDegradation
    \/ PacerStartProbe
    \/ PacerIncreaseProbePace
    \/ PacerStopProbe

\* the steps of a client whose signal stream delivers only QueueEmpty and
\* the ProbeDone signals of the Pacer
NextQuiet ==
    \/ ControlMonitor(QueueEmpty)
    \/ ControlProbing
    \/ PacerAdapt

SpecFair ==
    /\ Init
    /\ [][Next]_vars
    /\ WF_vars(ControlMonitor(QueueEmpty))
    /\ WF_vars(ControlProbing)
    /\ WF_vars(PacerAdapt)

(***************************************************************************)
(* The connection-loss specification: the client specification, in which   *)
(* the read half of the connection can end.  The control plane is          *)
(* monitor.select(probing).select(remote).for_each(..): a select of        *)
(* streams ends when both its streams have ended and fails when either     *)
(* fails, and the Monitor's timer never ends.                              *)
(***************************************************************************)
\* the server closed: read_buf returns 0, decode_eof returns None on the
\* empty buffer and the remote stream ends; the select goes on with the
\* Monitor and the probing stream
RemoteEof ==
    /\ cpStatus = "running"
    /\ tcp = "open"
    /\ tcp' = "eof"
    /\ UNCHANGED <<profVars, prober, ctlVars, dataVars, codecVars, mon, srv, probeObs>>

\* the read fails, or bytes of a frame remain at end of stream: the remote
\* stream fails, for_each fails with it and run() returns the ControlPlane
\* error
RemoteError ==
    /\ cpStatus = "running"
    /\ tcp = "open"
    /\ tcp' = "error"
    /\ cpStatus' = "failed"
    /\ UNCHANGED <<profVars, prober, adaptation, srcProfile, actionChan, probeChan,
                   last, obs, dataVars, codecVars, mon, srv, probeObs>>

NextClient ==
    \/ Next
    \/ RemoteEof
    \/ RemoteError

\* the event loop keeps running whatever is ready
SpecClient == Init /\ [][NextClient]_vars /\ WF_vars(NextClient)

(***************************************************************************)
(* The remote-report specification: the client specification with the      *)
(* frames of the server given as their mem bytes, which the remote stream  *)
(* parses with ReceiverReport::from_mem before core_adapt sees a signal.   *)
(***************************************************************************)
\* the mem of a frame read from the server: the bytes of a report, the same
\* cut short, and no bytes
RemoteMems ==
    { to_mem([latency |-> 300, goodput |-> 0, throughput |-> 1000]),
      Take(to_mem([latency |-> 300, goodput |-> 0, throughput |-> 1000]), 23),
      << >> }

\* remote.map(|as_datum| ReceiverReport::from_mem(&as_datum.mem).expect(..)):
\* a parsed report is the signal RemoteCongest(throughput, latency); the
\* expect panics on a mem that does not parse, which ends the control plane
RemoteFrame(mem) ==
    /\ ControlReady
    /\ tcp = "open"
    /\ LET r == from_mem(mem)
       IN  IF r.ok
           THEN core_adapt(RemoteCongest(r.rr.throughput))
           ELSE /\ cpStatus' = "panicked"
                /\ UNCHANGED <<profile, adaptation, actionChan, last, obs>>
    /\ UNCHANGED <<levels, pcall, prober, srcProfile, probeChan, planeVars, probeObs>>

NextRemote ==
    \/ Next
    \/ \E mem \in RemoteMems : RemoteFrame(mem)

SpecRemote == Init /\ [][NextRemote]_vars

(***************************************************************************)
(* The data-plane specification: the Pacer's timer, send_all driving the   *)
(* Socket, and the Monitor's timer, as three concurrent tasks (the event   *)
(* loop and two CpuPool workers).  No action is sent to the Pacer here.    *)
(***************************************************************************)
otherVarsOfData == <<profVars, prober, ctlVars, codecVars, mon, srv, tcp>>

\* the same and the Prober observation, for the steps of the sink and the Monitor
otherVarsOfSink == <<otherVarsOfData, probeObs>>

InitData ==
    /\ levels = <<500, 1000, 2000>>
    /\ profile = NewSimpleProfile
    /\ pcall = NoCall
    /\ prober = ProbeTrackerNew(period_in_ms)
    /\ adaptation = AdaptationDefault
    /\ srcProfile = NewSimpleProfile
    /\ actionChan = << >>
    /\ probeChan = << >>
    /\ cpStatus = "running"
    /\ last = NoLast
    /\ obs = NoObs
    /\ produced_bytes = 0
    /\ consumed_bytes = 0
    /\ pacer \in { [ticks |-> t, fired |-> 0, todo |-> << >>, counted |-> FALSE,
                    status |-> "running"] : t \in {0, one_second_ticks - 1} }
    /\ dataChan = << >>
    /\ sink = [buffer |-> << >>, held |-> NoFrame, pc |-> "poll", n |-> 0,
               blocked |-> FALSE]
    /\ wire = << >>
    /\ monitor = [pc |-> "idle", produced |-> 0, consumed |-> 0, queued |-> 0,
                  waiting |-> 0, status |-> "running"]
    /\ monSum = [produced |-> 0, consumed |-> 0, waiting |-> 0]
    /\ enqueued = << >>
    /\ CodecInit
    /\ mon = MonitorNew
    /\ probeObs = NoProbeObs
    /\ srv = ServerInit
    /\ tcp = "open"

\* Incoming::Timer: the frames this tick enqueues, in order.  size is what
\* source.next_datum() returns.
PacerTimer(size) ==
    /\ pacer.status = "running"
    /\ pacer.todo = << >>
    /\ pacer.fired < MaxTicks
    /\ LET t == pacer.ticks + 1
           second == t = one_second_ticks
           base == 3 * pacer.fired
           latency == [id |-> base + 1, kind |-> "LatencyProbe", level |-> 0,
                       len |-> net_len(0)]
           probe == [id |-> base + 2, kind |-> "BwProbe", level |-> 0,
                     len |-> net_len(prober.pace)]
           live == [id |-> base + 3, kind |-> "Live", level |-> srcProfile.current,
                    len |-> net_len(size)]
       IN  pacer' = [pacer EXCEPT
                !.ticks = IF second THEN 0 ELSE t,
                !.fired = pacer.fired + 1,
                !.counted = FALSE,
                !.todo = (IF second THEN <<latency>> ELSE << >>)
                         \o (IF size = 0 THEN << >>
                             ELSE (IF ProberActive(prober) THEN <<probe>> ELSE << >>)
                                  \o <<live>>)]
    /\ UNCHANGED <<produced_bytes, consumed_bytes, dataChan, sink, wire, monitor,
                   monSum, enqueued, otherVarsOfSink>>

\* counter_clone.fetch_add(p.net_len(), Ordering::SeqCst)
PacerCount ==
    /\ pacer.status = "running"
    /\ pacer.todo # << >>
    /\ ~pacer.counted
    /\ produced_bytes' = produced_bytes + Head(pacer.todo).len
    /\ pacer' = [pacer EXCEPT !.counted = TRUE]
    /\ probeObs' = IF Head(pacer.todo).kind = "BwProbe"
                   THEN [probeObs EXCEPT !.bytes = probeObs.bytes + Head(pacer.todo).len]
                   ELSE probeObs
    /\ UNCHANGED <<consumed_bytes, dataChan, sink, wire, monitor, monSum,
                   enqueued, otherVarsOfData>>

\* data_tx.unbounded_send(p); it fails once the receiver is gone, which ends
\* the Pacer (an expect for the probes, the for_each error for a Live frame)
PacerSend ==
    /\ pacer.status = "running"
    /\ pacer.todo # << >>
    /\ pacer.counted
    /\ IF sink.pc = "failed"
       THEN /\ pacer' = [pacer EXCEPT !.status = "stopped", !.todo = << >>,
                                      !.counted = FALSE]
            /\ UNCHANGED <<dataChan, enqueued, probeObs>>
       ELSE /\ dataChan' = Append(dataChan, Head(pacer.todo))
            /\ enqueued' = Append(enqueued, Head(pacer.todo))
            /\ probeObs' = IF Head(pacer.todo).kind = "BwProbe"
                           THEN [probeObs EXCEPT !.frames = probeObs.frames + 1]
                           ELSE probeObs
            /\ pacer' = [pacer EXCEPT !.todo = Tail(pacer.todo), !.counted = FALSE]
    /\ UNCHANGED <<produced_bytes, consumed_bytes, sink, wire, monitor, monSum,
                   otherVarsOfData>>

\* send_all has an item (the one it kept after a NotReady, else the next of
\* the channel) and calls start_send: below the boundary the item is encoded
\* into the buffer, otherwise start_send first calls poll_complete.
SinkStartSend ==
    /\ sink.pc = "poll"
    /\ sink.held # NoFrame \/ dataChan # << >>
    /\ LET item == IF sink.held # NoFrame THEN sink.held ELSE Head(dataChan)
       IN  /\ dataChan' = IF sink.held # NoFrame THEN dataChan ELSE Tail(dataChan)
           /\ IF backpressure(sink.buffer)
              THEN sink' = [sink EXCEPT !.held = item, !.pc = "send_flush"]
              ELSE sink' = [sink EXCEPT !.held = NoFrame,
                                        !.buffer = Append(sink.buffer, item)]
    /\ UNCHANGED <<produced_bytes, consumed_bytes, pacer, wire, monitor, monSum,
                   enqueued, otherVarsOfSink>>

\* send_all finds the channel empty and calls poll_complete
SinkPollComplete ==
    /\ sink.pc = "poll"
    /\ sink.held = NoFrame
    /\ dataChan = << >>
    /\ sink.buffer # << >>
    /\ sink' = [sink EXCEPT !.pc = "flush"]
    /\ UNCHANGED <<produced_bytes, consumed_bytes, pacer, dataChan, wire, monitor,
                   monSum, enqueued, otherVarsOfSink>>

InPollComplete == sink.pc \in {"flush", "send_flush"}

\* let n = try_nb!(self.net.write(&self.buffer)) with n > 0
SinkWrite(n) ==
    /\ InPollComplete
    /\ sink.buffer # << >>
    /\ n \in WriteSizes(BufLen(sink.buffer))
    /\ wire' = wire \o split_to_front(sink.buffer, n)
    /\ sink' = [sink EXCEPT !.n = n,
                            !.blocked = FALSE,
                            !.pc = IF sink.pc = "flush" THEN "flush_wrote"
                                   ELSE "send_flush_wrote"]
    /\ UNCHANGED <<produced_bytes, consumed_bytes, pacer, dataChan, monitor,
                   monSum, enqueued, otherVarsOfSink>>

\* self.bytes.fetch_add(n, Ordering::SeqCst); self.buffer.split_to(n)
SinkCount ==
    /\ sink.pc \in {"flush_wrote", "send_flush_wrote"}
    /\ consumed_bytes' = consumed_bytes + sink.n
    /\ sink' = [sink EXCEPT !.buffer = split_to_rest(sink.buffer, sink.n),
                            !.n = 0,
                            !.pc = IF sink.pc = "flush_wrote" THEN "flush"
                                   ELSE "send_flush"]
    /\ UNCHANGED <<produced_bytes, pacer, dataChan, wire, monitor, monSum,
                   enqueued, otherVarsOfSink>>

\* the write accepts no byte of a non-empty buffer: fetch_add(0), then the
\* WriteZero error, which ends send_all
SinkWriteZero ==
    /\ InPollComplete
    /\ sink.buffer # << >>
    /\ sink' = [sink EXCEPT !.pc = "failed"]
    /\ UNCHANGED <<produced_bytes, consumed_bytes, pacer, dataChan, wire, monitor,
                   monSum, enqueued, otherVarsOfSink>>

\* the write reports WouldBlock: poll_complete returns NotReady.  Inside
\* start_send the buffer is checked again: still at the boundary the item is
\* handed back (send_all keeps it), below it the item is encoded.
SinkWouldBlock ==
    /\ InPollComplete
    /\ sink.buffer # << >>
    /\ IF sink.pc = "send_flush" /\ ~backpressure(sink.buffer)
       THEN sink' = [sink EXCEPT !.pc = "poll", !.held = NoFrame,
                                 !.blocked = FALSE,
                                 !.buffer = Append(sink.buffer, sink.held)]
       ELSE sink' = [sink EXCEPT !.pc = "poll",
                                 !.blocked = backpressure(sink.buffer)]
    /\ UNCHANGED <<produced_bytes, consumed_bytes, pacer, dataChan, wire, monitor,
                   monSum, enqueued, otherVarsOfSink>>

\* the buffer is empty: net.flush(), and poll_complete returns Ready; inside
\* start_send the item is then encoded
SinkFlushed ==
    /\ InPollComplete
    /\ sink.buffer = << >>
    /\ IF sink.pc = "send_flush"
       THEN sink' = [sink EXCEPT !.pc = "poll", !.held = NoFrame,
                                 !.blocked = FALSE,
                                 !.buffer = <<sink.held>>]
       ELSE sink' = [sink EXCEPT !.pc = "poll", !.blocked = FALSE]
    /\ UNCHANGED <<produced_bytes, consumed_bytes, pacer, dataChan, wire, monitor,
                   monSum, enqueued, otherVarsOfSink>>

\* the buffer is empty and net.flush() reports WouldBlock: poll_complete
\* returns NotReady; inside start_send the buffer is below the boundary and
\* the item is encoded
SinkFlushWouldBlock ==
    /\ InPollComplete
    /\ sink.buffer = << >>
    /\ IF sink.pc = "send_flush"
       THEN sink' = [sink EXCEPT !.pc = "poll", !.held = NoFrame,
                                 !.blocked = FALSE,
                                 !.buffer = <<sink.held>>]
       ELSE sink' = [sink EXCEPT !.pc = "poll", !.blocked = FALSE]
    /\ UNCHANGED <<produced_bytes, consumed_bytes, pacer, dataChan, wire, monitor,
                   monSum, enqueued, otherVarsOfSink>>

\* the bytes waiting locally: the frames in the channel and the sink's buffer
Waiting == BufLen(dataChan) + BufLen(sink.buffer)

\* react_to_timer: let produced = self.produced_bytes.swap(0, SeqCst).
\* monitor.waiting observes the least number of bytes waiting at the steps
\* of this fire, for monSum.waiting.
MonitorSwapProduced ==
    /\ monitor.status = "running"
    /\ monitor.pc = "idle"
    /\ monitor' = [monitor EXCEPT !.pc = "swapped_produced", !.produced = produced_bytes,
                                  !.waiting = Waiting]
    /\ produced_bytes' = 0
    /\ UNCHANGED <<consumed_bytes, pacer, dataChan, sink, wire, monSum,
                   enqueued, otherVarsOfSink>>

\* react_to_timer: let consumed = self.consumed_bytes.swap(0, SeqCst)
MonitorSwapConsumed ==
    /\ monitor.status = "running"
    /\ monitor.pc = "swapped_produced"
    /\ monitor' = [monitor EXCEPT !.pc = "swapped_consumed", !.consumed = consumed_bytes,
                                  !.waiting = Min(monitor.waiting, Waiting)]
    /\ consumed_bytes' = 0
    /\ UNCHANGED <<produced_bytes, pacer, dataChan, sink, wire, monSum,
                   enqueued, otherVarsOfSink>>

\* react_to_timer: self.queued = self.queued + produced - consumed (a build
\* without overflow checks wraps on underflow)
MonitorUpdate ==
    /\ monitor.status = "running"
    /\ monitor.pc = "swapped_consumed"
    /\ monitor' = [monitor EXCEPT
            !.pc = "idle",
            !.queued = queued_update(monitor.queued, monitor.produced, monitor.consumed),
            !.produced = 0, !.consumed = 0, !.waiting = 0]
    /\ monSum' = [produced |-> monSum.produced + monitor.produced,
                  consumed |-> monSum.consumed + monitor.consumed,
                  waiting |-> Min(monitor.waiting, Waiting)]
    /\ UNCHANGED <<produced_bytes, consumed_bytes, pacer, dataChan, sink, wire,
                   enqueued, otherVarsOfSink>>

\* the same statement in a build with overflow checks, when the subtraction
\* underflows: "attempt to subtract with overflow", the Monitor panics
MonitorOverflowPanic ==
    /\ monitor.status = "running"
    /\ monitor.pc = "swapped_consumed"
    /\ monitor.queued + monitor.produced < monitor.consumed
    /\ monitor' = [monitor EXCEPT !.pc = "idle", !.status = "panicked",
                                  !.produced = 0, !.consumed = 0, !.waiting = 0]
    /\ monSum' = [produced |-> monSum.produced + monitor.produced,
                  consumed |-> monSum.consumed + monitor.consumed,
                  waiting |-> Min(monitor.waiting, Waiting)]
    /\ UNCHANGED <<produced_bytes, consumed_bytes, pacer, dataChan, sink, wire,
                   enqueued, otherVarsOfSink>>

NextData ==
    \/ \E size \in DatumSizes : PacerTimer(size)
    \/ PacerCount
    \/ PacerSend
    \/ SinkStartSend
    \/ SinkPollComplete
    \/ \E n \in WriteSizes(BufLen(sink.buffer)) : SinkWrite(n)
    \/ SinkCount
    \/ SinkWriteZero
    \/ SinkWouldBlock
    \/ SinkFlushed
    \/ SinkFlushWouldBlock
    \/ MonitorSwapProduced
    \/ MonitorSwapConsumed
    \/ MonitorUpdate
    \/ MonitorOverflowPanic

SpecData == InitData /\ [][NextData]_vars

(***************************************************************************)
(* The Pacer specification: the one task of TimerSource::spawn, which      *)
(* handles timer ticks and the Adapt actions of the control plane one at a *)
(* time, under any sequence of actions the control plane can send.         *)
(***************************************************************************)
\* actions sent to the Pacer and not yet handled, in the Pacer specification
MaxPending == 1

\* StartProbe targets in hundredths of a kbps: PROBE_EXTRA times a rate
\* delta of 500 kbps
PacerTargets == { PROBE_EXTRA * 500 }

\* what source.next_datum() returns in the Pacer specification
PacerSizes == { 40000 }

PacerActions ==
    { AdaptToRate(500), AdaptDecreaseDegradation, AdaptIncreaseProbePace,
      AdaptStopProbe } \cup { AdaptStartProbe(t) : t \in PacerTargets }

\* the Pacer is given every action whatever its profile; with one level the
\* Live frames all carry level 0
InitPacer ==
    /\ levels = <<500>>
    /\ profile = NewSimpleProfile
    /\ pcall = NoCall
    /\ prober = ProbeTrackerNew(period_in_ms)
    /\ adaptation = AdaptationDefault
    /\ srcProfile = NewSimpleProfile
    /\ actionChan = << >>
    /\ probeChan = << >>
    /\ cpStatus = "running"
    /\ last = NoLast
    /\ obs = NoObs
    /\ DataInit
    /\ CodecInit
    /\ mon = MonitorNew
    /\ probeObs = NoProbeObs
    /\ srv = ServerInit
    /\ tcp = "open"

\* block_send(src_ctrl, action): the control plane sends the Pacer an action
Dispatch(a) ==
    /\ Len(actionChan) < MaxPending
    /\ Len(probeChan) < MaxProbeDone
    /\ actionChan' = Append(actionChan, a)
    /\ UNCHANGED <<profVars, prober, adaptation, srcProfile, probeChan, cpStatus,
                   last, obs, planeVars, probeObs>>

NextPacer ==
    \/ \E size \in PacerSizes : PacerTimer(size)
    \/ PacerCount
    \/ PacerSend
    \/ \E a \in PacerActions : Dispatch(a)
    \/ PacerToRate
    \/ PacerDecreaseDegradation
    \/ PacerStartProbe
    \/ PacerIncreaseProbePace
    \/ PacerStopProbe

SpecPacer == InitPacer /\ [][NextPacer]_vars

(***************************************************************************)
(* The tick specification: the Pacer's timer with a source that may have   *)
(* no data, started at the beginning of a second of ticks or one tick      *)
(* before its end, while the control plane starts probes and raises the    *)
(* level.                                                                  *)
(***************************************************************************)
\* the actions the control plane sends in the tick specification
TickActions ==
    { AdaptDecreaseDegradation } \cup { AdaptStartProbe(t) : t \in PacerTargets }

\* ticks is 0 after construction and one_second_ticks - 1 after as many
\* ticks on which the source had no data, which leave all else unchanged
InitTick ==
    /\ levels = <<500, 1000>>
    /\ profile = NewSimpleProfile
    /\ pcall = NoCall
    /\ prober = ProbeTrackerNew(period_in_ms)
    /\ adaptation = AdaptationDefault
    /\ srcProfile = NewSimpleProfile
    /\ actionChan = << >>
    /\ probeChan = << >>
    /\ cpStatus = "running"
    /\ last = NoLast
    /\ obs = NoObs
    /\ produced_bytes = 0
    /\ consumed_bytes = 0
    /\ \E t \in {0, one_second_ticks - 1} :
          pacer = [ticks |-> t, fired |-> 0, todo |-> << >>, counted |-> FALSE,
                   status |-> "running"]
    /\ dataChan = << >>
    /\ sink = [buffer |-> << >>, held |-> NoFrame, pc |-> "poll", n |-> 0,
               blocked |-> FALSE]
    /\ wire = << >>
    /\ monitor = [pc |-> "idle", produced |-> 0, consumed |-> 0, queued |-> 0,
                  waiting |-> 0, status |-> "running"]
    /\ monSum = [produced |-> 0, consumed |-> 0, waiting |-> 0]
    /\ enqueued = << >>
    /\ CodecInit
    /\ mon = MonitorNew
    /\ probeObs = NoProbeObs
    /\ srv = ServerInit
    /\ tcp = "open"

NextTick ==
    \/ \E size \in DatumSizes : PacerTimer(size)
    \/ PacerCount
    \/ PacerSend
    \/ \E a \in TickActions : Dispatch(a)
    \/ PacerDecreaseDegradation
    \/ PacerStartProbe

SpecTick == InitTick /\ [][NextTick]_vars

(***************************************************************************)
(* The server specification: one connection of handle_conn, its inbound    *)
(* frame stream (process_connection) and its 1 Hz statistics interval      *)
(* (estimate_throughput), spawned as two tasks on the server's core.       *)
(***************************************************************************)
\* frames handled on the connection in the server specification
MaxServerFrames == 4

\* times the receiver's clock advances in the server specification
MaxClockSteps == 3

\* what the clock advances by, in microseconds
ClockSteps == { 500000, 500400 }

\* now - datum.ts of the frames received, in ms
FrameLatencies == { 50, 5000 }

\* what report() did with a ReceiverReport: "none" it built none, "sent" the
\* sink accepted it, "rejected" start_send returned NotReady or an error
ReportPaths == { "none", "sent", "rejected" }

\* as_datum.len() of the frames of each kind
FrameLen(kind) ==
    CASE kind = "Live" -> 1000
      [] kind = "Dummy" -> 300
      [] kind = "LatencyProbe" -> 90
      [] kind = "ReceiverCongest" -> 120

otherVarsOfServer == <<profVars, prober, ctlVars, dataVars, codecVars, mon, probeObs, tcp>>

InitServer ==
    /\ levels = <<500, 1000, 2000>>
    /\ profile = NewSimpleProfile
    /\ pcall = NoCall
    /\ prober = ProbeTrackerNew(period_in_ms)
    /\ adaptation = AdaptationDefault
    /\ srcProfile = NewSimpleProfile
    /\ actionChan = << >>
    /\ probeChan = << >>
    /\ cpStatus = "running"
    /\ last = NoLast
    /\ obs = NoObs
    /\ DataInit
    /\ CodecInit
    /\ mon = MonitorNew
    /\ probeObs = NoProbeObs
    /\ srv = ServerInit
    /\ tcp = "open"

\* the for_each closure of process_connection on one datum: throughput.add
\* for every datum, then by kind; reporter.report(..)? returns ok, or an
\* error (of analytics.add, or of the sink it sends the report on) that ends
\* the stream.  report() builds a ReceiverReport when the latency is high and
\* the last report is more than 500 ms old, and sets last_report_time before
\* it hands the report to the sink.
ServerFrame(kind, ok) ==
    /\ srv.conn = "open"
    /\ srv.frames < MaxServerFrames
    /\ kind # "Live" => ok
    /\ \E latency \in FrameLatencies, path \in ReportPaths :
       LET size == FrameLen(kind)
           due == /\ kind = "Live"
                  /\ latency_is_high(srv.net_min, srv.goodput.rate, size, latency)
                  /\ report_due(srv.now, srv.last_report_time)
           report == [at |-> srv.now, kind |-> kind, latency |-> latency,
                      net_delay |-> srv.net_min, rate |-> srv.goodput.rate,
                      len |-> size]
       IN  /\ path # "none" => due
           /\ (path = "none" /\ ok) => ~due
           /\ srv' = [srv EXCEPT
               !.last_report_time = IF path = "none" THEN srv.last_report_time
                                    ELSE srv.now,
               !.reports = IF path = "sent" THEN Append(srv.reports, report)
                           ELSE srv.reports,
               !.net_min = IF kind = "LatencyProbe" THEN stat_min(srv.net_min, latency)
                           ELSE srv.net_min,
               !.frames = srv.frames + 1,
               !.throughput = bw_add(srv.throughput, size),
               !.goodput = IF kind = "Live" THEN bw_add(srv.goodput, size)
                           ELSE srv.goodput,
               !.latency_mon.samples = IF kind = "Live" THEN srv.latency_mon.samples + 1
                                       ELSE srv.latency_mon.samples,
               !.net_latency = IF kind = "LatencyProbe" THEN srv.net_latency + 1
                               ELSE srv.net_latency,
               !.seen[kind] = srv.seen[kind] + size,
               !.conn = IF ok THEN "open" ELSE "failed",
               !.stopper = IF ok THEN "held" ELSE "dropped"]
    /\ UNCHANGED otherVarsOfServer

\* time passes on the receiver's clock
ClockPasses(dt) ==
    /\ srv.steps < MaxClockSteps
    /\ srv' = [srv EXCEPT !.now = srv.now + dt, !.steps = srv.steps + 1]
    /\ UNCHANGED otherVarsOfServer

\* transport_read ends: for_each completes, and_then runs its closure, which
\* sends the cancel
ServerEndOfStream ==
    /\ srv.conn = "open"
    /\ srv' = [srv EXCEPT !.conn = "ended", !.stopper = "sent"]
    /\ UNCHANGED otherVarsOfServer

\* transport_read yields an error (decode fails): map_err makes it Err(()),
\* and_then does not run its closure, and the task ends dropping it and the
\* tick_stopper it owns
ServerDecodeError ==
    /\ srv.conn = "open"
    /\ srv' = [srv EXCEPT !.conn = "failed", !.stopper = "dropped"]
    /\ UNCHANGED otherVarsOfServer

\* Interval::poll with rx.poll() == Ok(Async::Ready(())): the stream ends
IntervalCancelled ==
    /\ srv.interval = "running"
    /\ srv.stopper = "sent"
    /\ srv' = [srv EXCEPT !.interval = "done"]
    /\ UNCHANGED otherVarsOfServer

\* Interval::poll with rx.poll() NotReady (sender held) or Err(Canceled)
\* (sender dropped) and the sleep elapsed: a tick, on which for_each's closure
\* updates the three monitors
IntervalTick ==
    /\ srv.interval = "running"
    /\ srv.stopper # "sent"
    /\ srv.ticks < MaxTicks
    /\ srv' = [srv EXCEPT
            !.ticks = srv.ticks + 1,
            !.lateTicks = IF srv.conn = "open" THEN srv.lateTicks ELSE srv.lateTicks + 1,
            !.goodput = bw_update(srv.goodput),
            !.throughput = bw_update(srv.throughput),
            !.latency_mon = latency_update(srv.latency_mon),
            !.seen = [k \in FrameKinds |-> 0]]
    /\ UNCHANGED otherVarsOfServer

NextServer ==
    \/ \E kind \in FrameKinds, ok \in BOOLEAN : ServerFrame(kind, ok)
    \/ \E dt \in ClockSteps : ClockPasses(dt)
    \/ ServerEndOfStream
    \/ ServerDecodeError
    \/ IntervalCancelled
    \/ IntervalTick

SpecServer == InitServer /\ [][NextServer]_vars

(***************************************************************************)
(* The codec specification: datums of every variant are encoded into a     *)
(* buffer, the bytes reach the reader's buffer in chunks of any size, and  *)
(* FramedRead calls decode on what it has.                                 *)
(***************************************************************************)
otherVarsOfCodec == <<profVars, prober, ctlVars, dataVars, mon, probeObs, srv, tcp>>

Timestamps == { [secs |-> 7, millis |-> 0], [secs |-> 12, millis |-> 250] }

Payloads == { [i \in 1..n |-> 1] : n \in 0..MaxMem }

Reports == { [latency |-> 300, goodput |-> 0, throughput |-> 1] }

\* the datums of the first frame: every variant the constructors make
Datums ==
    { AsDatumNew(3, 42, data, now) : data \in Payloads, now \in Timestamps }
    \cup { bw_probe(size, [secs |-> 7, millis |-> 0]) : size \in 0..MaxMem }
    \cup { latency_probe([secs |-> 12, millis |-> 250]) }
    \cup { ack(rr, [secs |-> 7, millis |-> 0]) : rr \in Reports }

\* the datums of the frames after the first
FollowDatums == { AsDatumNew(3, 42, <<1>>, [secs |-> 12, millis |-> 250]) }

InitCodec ==
    /\ levels = <<500, 1000, 2000>>
    /\ profile = NewSimpleProfile
    /\ pcall = NoCall
    /\ prober = ProbeTrackerNew(period_in_ms)
    /\ adaptation = AdaptationDefault
    /\ srcProfile = NewSimpleProfile
    /\ actionChan = << >>
    /\ probeChan = << >>
    /\ cpStatus = "running"
    /\ last = NoLast
    /\ obs = NoObs
    /\ DataInit
    /\ toEncode \in { <<d>> \o rest :
                        d \in Datums,
                        rest \in UNION { [1..n -> FollowDatums] : n \in 0..(MaxFrames - 1) } }
    /\ encBuf = << >>
    /\ decBuf = << >>
    /\ codecState = AwaitLen
    /\ is_readable = FALSE
    /\ encoded = << >>
    /\ decoded = << >>
    /\ lastDecode = NoDecode
    /\ mon = MonitorNew
    /\ probeObs = NoProbeObs
    /\ srv = ServerInit
    /\ tcp = "open"

\* codec.encode(d, &mut buf)
Encode ==
    /\ toEncode # << >>
    /\ encBuf' = encode(Head(toEncode), encBuf)
    /\ encoded' = Append(encoded,
            [datum |-> Head(toEncode),
             written |-> Len(encode(Head(toEncode), encBuf)) - Len(encBuf),
             bytes |-> encode(Head(toEncode), << >>)])
    /\ toEncode' = Tail(toEncode)
    /\ UNCHANGED <<decBuf, codecState, is_readable, decoded, lastDecode,
                   otherVarsOfCodec>>

\* FramedRead::poll, not readable: self.inner.read_buf(&mut self.buffer)
\* reads n bytes (with none to read the poll is NotReady), then
\* is_readable = true
ReadBuf(n) ==
    /\ ~is_readable
    /\ lastDecode.ret # "Err"
    /\ n \in 1..Len(encBuf)
    /\ decBuf' = decBuf \o Take(encBuf, n)
    /\ encBuf' = Drop(encBuf, n)
    /\ is_readable' = TRUE
    /\ UNCHANGED <<toEncode, codecState, encoded, decoded, lastDecode,
                   otherVarsOfCodec>>

\* FramedRead::poll, readable: self.decoder.decode(&mut self.buffer); a
\* frame is returned, an error ends the stream, and None clears is_readable
Decode ==
    /\ is_readable
    /\ LET r == decode(codecState, decBuf)
       IN  /\ codecState' = r.state
           /\ decBuf' = r.buf
           /\ decoded' = IF r.ret = "Some" THEN Append(decoded, r.datum) ELSE decoded
           /\ is_readable' = (r.ret = "Some")
           /\ lastDecode' = [state |-> codecState, buf |-> decBuf, ret |-> r.ret,
                             datum |-> r.datum, after |-> r.buf,
                             afterState |-> r.state]
    /\ UNCHANGED <<toEncode, encBuf, encoded, otherVarsOfCodec>>

\* the sizes of the chunks the reader gets: one byte, or all that was written
ChunkSizes == {1, Len(encBuf)}

NextCodec ==
    \/ Encode
    \/ \E n \in ChunkSizes : ReadBuf(n)
    \/ Decode

SpecCodec == InitCodec /\ [][NextCodec]_vars

(***************************************************************************)
(* The Monitor specification: the Monitor's timer fires with any values    *)
(* read from the two counters that leave the queue non-negative.           *)
(***************************************************************************)
otherVarsOfMonitor == <<profVars, prober, ctlVars, dataVars, codecVars, probeObs, srv, tcp>>

ProducedValues == {0, 50000, 150000}

ConsumedValues == {0, 50000, 100000}

InitMonitor ==
    /\ levels = <<500, 1000, 2000>>
    /\ profile = NewSimpleProfile
    /\ pcall = NoCall
    /\ prober = ProbeTrackerNew(period_in_ms)
    /\ adaptation = AdaptationDefault
    /\ srcProfile = NewSimpleProfile
    /\ actionChan = << >>
    /\ probeChan = << >>
    /\ cpStatus = "running"
    /\ last = NoLast
    /\ obs = NoObs
    /\ DataInit
    /\ CodecInit
    /\ mon = MonitorNew
    /\ probeObs = NoProbeObs
    /\ srv = ServerInit
    /\ tcp = "open"

\* Monitor::poll: the timer fired, react_to_timer with the values swapped out
MonitorFire(produced, consumed) ==
    /\ consumed <= mon.queued + produced
    /\ mon.queued + produced - consumed <= MaxQueued
    /\ react_to_timer(mon, produced, consumed).rate_exp <= MaxHalvings
    /\ mon' = react_to_timer(mon, produced, consumed)
    /\ UNCHANGED otherVarsOfMonitor

NextMonitor ==
    \E produced \in ProducedValues, consumed \in ConsumedValues :
        MonitorFire(produced, consumed)

SpecMonitor == InitMonitor /\ [][NextMonitor]_vars

(***************************************************************************)
(* The profile specification: a SimpleProfile under any sequence of        *)
(* adjust_level(bw), advance_level() and decrease_level() calls.           *)
(***************************************************************************)
\* strictly increasing bandwidth columns over 10, 20, ..., 10 * MaxLevels
BwValues == { 10 * i : i \in 1..MaxLevels }

RECURSIVE SortedSeq(_)
SortedSeq(S) ==
    IF S = {} THEN << >>
    ELSE LET m == CHOOSE x \in S : \A y \in S : x <= y
         IN  <<m>> \o SortedSeq(S \ {m})

Profiles == { SortedSeq(S) : S \in (SUBSET BwValues) \ {{}} }

\* rates below, on, between and above the bandwidths
Rates == { 5 * i : i \in 1..(2 * MaxLevels + 1) }

otherVarsOfProfile == <<prober, ctlVars, planeVars, probeObs>>

InitProfile ==
    /\ levels \in Profiles
    /\ profile = NewSimpleProfile
    /\ pcall = NoCall
    /\ prober = ProbeTrackerNew(period_in_ms)
    /\ adaptation = AdaptationDefault
    /\ srcProfile = NewSimpleProfile
    /\ actionChan = << >>
    /\ probeChan = << >>
    /\ cpStatus = "running"
    /\ last = NoLast
    /\ obs = NoObs
    /\ DataInit
    /\ CodecInit
    /\ mon = MonitorNew
    /\ probeObs = NoProbeObs
    /\ srv = ServerInit
    /\ tcp = "open"

\* pcall.run: the number of calls whose computed index equalled the current
\* level since the sticky budget was last full at the time of a call.
AdjustLevel(bw) ==
    LET r == adjust_level(levels, profile, bw)
        idx == get_level_index(levels, bw)
        equal == idx = profile.current
        base == IF profile.adjust_sticky_count = ADJUST_STICKY_MAX THEN 0 ELSE pcall.run
    IN  /\ profile' = r.p
        /\ pcall' = [op |-> "adjust", bw |-> bw, idx |-> idx,
                     before |-> profile.current, ret |-> r.ret,
                     run |-> IF equal THEN base + 1 ELSE base]
        /\ UNCHANGED <<levels, otherVarsOfProfile>>

AdvanceLevel ==
    LET r == advance_level(levels, profile)
    IN  /\ profile' = r.p
        /\ pcall' = [pcall EXCEPT !.op = "advance", !.bw = 0, !.idx = 0,
                                  !.before = profile.current, !.ret = r.ret]
        /\ UNCHANGED <<levels, otherVarsOfProfile>>

DecreaseLevel ==
    LET r == decrease_level(profile)
    IN  /\ profile' = r.p
        /\ pcall' = [pcall EXCEPT !.op = "decrease", !.bw = 0, !.idx = 0,
                                  !.before = profile.current, !.ret = r.ret]
        /\ UNCHANGED <<levels, otherVarsOfProfile>>

NextProfile ==
    \/ \E bw \in Rates : AdjustLevel(bw)
    \/ AdvanceLevel
    \/ DecreaseLevel

SpecProfile == InitProfile /\ [][NextProfile]_vars

(***************************************************************************)
(* The Prober specification: a ProbeTracker under any sequence of          *)
(* start_probe(target), inc_pace() and stop_probe() calls.                 *)
(***************************************************************************)
ProbeTargets == { 100 * k : k \in 0..MaxProbeKbps }

otherVarsOfProber == <<profVars, ctlVars, planeVars, probeObs>>

InitProber ==
    /\ levels = <<500, 1000, 2000>>
    /\ profile = NewSimpleProfile
    /\ pcall = NoCall
    /\ prober = ProbeTrackerNew(period_in_ms)
    /\ adaptation = AdaptationDefault
    /\ srcProfile = NewSimpleProfile
    /\ actionChan = << >>
    /\ probeChan = << >>
    /\ cpStatus = "running"
    /\ last = NoLast
    /\ obs = NoObs
    /\ DataInit
    /\ CodecInit
    /\ mon = MonitorNew
    /\ probeObs = NoProbeObs
    /\ srv = ServerInit
    /\ tcp = "open"

StartProbeCall(t) ==
    /\ prober' = start_probe(prober, t)
    /\ UNCHANGED otherVarsOfProber

IncPaceCall ==
    /\ prober' = inc_pace(prober).pr
    /\ UNCHANGED otherVarsOfProber

StopProbeCall ==
    /\ prober' = stop_probe(prober)
    /\ UNCHANGED otherVarsOfProber

NextProber ==
    \/ \E t \in ProbeTargets : StartProbeCall(t)
    \/ IncPaceCall
    \/ StopProbeCall

SpecProber == InitProber /\ [][NextProber]_vars

(***************************************************************************)
(* Claims on SimpleProfile (checked under SpecProfile)                     *)
(***************************************************************************)
LevelIndices == 0..(Len(levels) - 1)

\* The index the lookup is specified to return: the greatest index whose
\* bandwidth is at most r, or 0 when r is below the smallest bandwidth.
GreatestAtMost(lv, r) ==
    IF \E i \in 0..(Len(lv) - 1) : lv[i + 1] <= r
    THEN CHOOSE i \in 0..(Len(lv) - 1) :
            /\ lv[i + 1] <= r
            /\ \A j \in 0..(Len(lv) - 1) : lv[j + 1] <= r => j <= i
    ELSE 0

\* C7: after any sequence of adjust_level, advance_level and decrease_level
\* calls on a profile with at least one level, 0 <= current < number of
\* levels; an adjust_level call never leaves current higher than before the
\* call and an advance_level call never leaves it lower.
C7_LevelStaysInRange ==
    /\ profile.current \in LevelIndices
    /\ (pcall.op = "adjust" => profile.current <= pcall.before)
    /\ (pcall.op = "advance" => profile.current >= pcall.before)

\* an advance_level call at the last level of a profile with several levels,
\* reached after adjust_level had lowered the level
C7_Witness ==
    /\ Len(levels) = MaxLevels
    /\ pcall.op = "advance"
    /\ pcall.before = Len(levels) - 1
    /\ profile.current = Len(levels) - 1
    /\ pcall.run > 0

\* C8: on a profile with strictly increasing bandwidths the lookup returns
\* the greatest index whose bandwidth is <= r, or 0 when r is below the
\* smallest; adjust_level(r) sets current to that index and returns it
\* exactly when that index is strictly lower than current.
C8_AdjustLowersToGreatestAtMost ==
    /\ \A r \in Rates : get_level_index(levels, r) = GreatestAtMost(levels, r)
    /\ pcall.op = "adjust" =>
          /\ pcall.idx = GreatestAtMost(levels, pcall.bw)
          /\ (pcall.ret = Some(pcall.idx) /\ profile.current = pcall.idx)
                <=> (pcall.idx < pcall.before)

\* adjust_level with a rate strictly between two bandwidths lowered the level
\* by more than one, to the greatest level at most the rate
C8_Witness ==
    /\ pcall.op = "adjust"
    /\ pcall.idx >= 1
    /\ pcall.idx + 1 < pcall.before
    /\ levels[pcall.idx + 1] < pcall.bw
    /\ pcall.ret = Some(pcall.idx)
    /\ profile.current = pcall.idx

\* C9: starting with a full sticky budget, ADJUST_STICKY_MAX adjust_level
\* calls whose computed index equals the current level leave the level
\* unchanged and return nothing; the next such call decreases the level by
\* exactly one (when current > 0) and restores the budget; the sticky
\* counter stays within 0..ADJUST_STICKY_MAX.
C9_StickyPolicy ==
    /\ profile.adjust_sticky_count \in 0..ADJUST_STICKY_MAX
    /\ (pcall.op = "adjust" /\ pcall.idx = pcall.before) =>
          /\ pcall.run \in 1..(ADJUST_STICKY_MAX + 1)
          /\ pcall.run <= ADJUST_STICKY_MAX =>
                /\ profile.current = pcall.before
                /\ pcall.ret = None
                /\ profile.adjust_sticky_count = ADJUST_STICKY_MAX - pcall.run
          /\ pcall.run = ADJUST_STICKY_MAX + 1 =>
                /\ profile.adjust_sticky_count = ADJUST_STICKY_MAX
                /\ pcall.before > 0 =>
                      /\ profile.current = pcall.before - 1
                      /\ pcall.ret = Some(pcall.before - 1)
                /\ pcall.before = 0 => profile.current = 0

\* the call after ADJUST_STICKY_MAX sticky calls took the level down by one
C9_Witness ==
    /\ pcall.op = "adjust"
    /\ pcall.idx = pcall.before
    /\ pcall.run = ADJUST_STICKY_MAX + 1
    /\ pcall.before > 0
    /\ profile.current = pcall.before - 1
    /\ profile.adjust_sticky_count = ADJUST_STICKY_MAX

(***************************************************************************)
(* Claims on ProbeTracker (checked under SpecProber)                       *)
(***************************************************************************)
\* C10: whenever the Prober is active (next() would return a probe),
\* 0 < current_pace <= target_pace and step = target_pace / NUM_PROBE_STEPS.
C10_ActiveProberPaceWithinTarget ==
    ProberActive(prober) =>
        /\ 0 < prober.pace
        /\ prober.pace <= prober.target_pace
        /\ prober.delta = prober.target_pace \div NUM_PROBE_REQUIRED

(***************************************************************************)
(* Claims on the adaptation machine and its dispatch (checked under Spec)  *)
(***************************************************************************)
\* C2: for every (state, signal, at_max) row of the transition table that
\* carries no footnote, transit yields exactly the listed next state and
\* action, AdjustConfig carrying the rate of the signal.
C2_TransitionTable ==
    LET s == last.state
        k == last.signal.kind
        a == last.action
        n == adaptation.state
        congest == IsCongest(last.signal)
    IN  /\ (s = "Startup" /\ k = "QueueEmpty" /\ ~last.max)
              => (n = "Startup" /\ a = AdvanceConfig)
        /\ (s = "Startup" /\ k = "QueueEmpty" /\ last.max)
              => (n = "Steady" /\ a = NoOp)
        /\ (s = "Degrade" /\ congest)
              => (n = "Degrade" /\ a = AdjustConfig(last.signal.rate))
        /\ (s = "Degrade" /\ k = "QueueEmpty")
              => (n = "Steady" /\ a = NoOp)
        /\ (s = "Steady" /\ congest)
              => (n = "Degrade" /\ a = AdjustConfig(last.signal.rate))
        /\ (s = "Steady" /\ k = "QueueEmpty" /\ last.max)
              => (n = "Steady" /\ a = NoOp)
        /\ (s = "Probe" /\ congest)
              => (n = "Steady" /\ a = StopProbe)
        /\ (s = "Probe" /\ k = "QueueEmpty")
              => (n = "Probe" /\ a = IncreaseProbePace)
        /\ (s = "Probe" /\ k = "ProbeDone")
              => (n = "Steady" /\ a = AdvanceConfig)

\* a congestion signal consumed in Probe stopped the probe
C2_Witness ==
    /\ last.state = "Probe"
    /\ last.signal.kind = "RemoteCongest"
    /\ last.action = StopProbe
    /\ adaptation.state = "Steady"

\* C3: starting from a fresh machine in Startup, the first
\* STARTUP_CONGEST_ENOUGH congestion signals each yield NoOp and leave the
\* state Startup, and the next congestion signal received in Startup yields
\* AdjustConfig(rate of that signal) and moves the machine to Degrade.
C3_StartupToleratesThreeCongestions ==
    (last.state = "Startup" /\ IsCongest(last.signal)) =>
        /\ obs.startupCongest <= STARTUP_CONGEST_ENOUGH
              => (last.action = NoOp /\ adaptation.state = "Startup")
        /\ obs.startupCongest = STARTUP_CONGEST_ENOUGH + 1
              => /\ last.action = AdjustConfig(last.signal.rate)
                 /\ adaptation.state = "Degrade"

\* C4: when the machine has just entered Steady and the level is not the
\* maximum, three QueueEmpty signals in a row make it issue StartProbe and
\* move to Probe on the third; the first two yield NoOp and leave it Steady.
C4_ProbeOnThirdQueueEmpty ==
    (last.state = "Steady" /\ last.signal.kind = "QueueEmpty" /\ ~last.max) =>
        /\ obs.steadyEmpty \in 1..(STEADY_ENOUGH - 1)
              => (last.action = NoOp /\ adaptation.state = "Steady")
        /\ obs.steadyEmpty = STEADY_ENOUGH
              => (last.action = StartProbe /\ adaptation.state = "Probe")

\* C5 as claimed: with a 3-level profile, a fresh machine that receives
\* QueueEmpty twice (each action applied before the next signal) has its
\* level go 0 -> 1 -> 2 and is in Steady after the second QueueEmpty.
C5_SteadyAfterSecondQueueEmpty ==
    Len(levels) = 3 =>
        /\ obs.qePrefix = 1 => profile.current = 1
        /\ obs.qePrefix = 2 => (profile.current = 2 /\ adaptation.state = "Steady")

\* C5 as amended: with a 3-level profile, a fresh machine that receives
\* QueueEmpty twice (each action applied before the next signal) has its
\* level go 0 -> 1 -> 2, in the control plane and at the Source Adapter, and
\* is still in Startup after the second QueueEmpty; a third QueueEmpty, which
\* finds the level at the maximum, yields NoOp and moves it to Steady.
C5_StartupUntilThirdQueueEmpty ==
    Len(levels) = 3 =>
        /\ obs.qePrefix = 1 =>
              /\ profile.current = 1
              /\ adaptation.state = "Startup"
              /\ last.action = AdvanceConfig
              /\ actionChan = << >> => srcProfile.current = 1
        /\ obs.qePrefix = 2 =>
              /\ profile.current = 2
              /\ adaptation.state = "Startup"
              /\ last.action = AdvanceConfig
              /\ actionChan = << >> => srcProfile.current = 2
        /\ obs.qePrefix = 3 =>
              /\ profile.current = 2
              /\ srcProfile.current = 2
              /\ adaptation.state = "Steady"
              /\ last.action = NoOp

\* the third QueueEmpty of a fresh machine on a 3-level profile was consumed
C5_Witness ==
    /\ Len(levels) = 3
    /\ obs.qePrefix = 3
    /\ adaptation.state = "Steady"
    /\ profile.current = 2
    /\ srcProfile.current = 2

\* C6: after StartProbe has put the machine in Probe and the Prober active
\* at level 1 of a 3-level profile, five consecutive QueueEmpty signals each
\* increase the probe pace (the fifth bringing the pace to target_pace)
\* without posting ProbeDone; the sixth makes inc_pace return false so that
\* ProbeDone is posted; consuming that ProbeDone yields AdvanceConfig, level
\* 1 -> 2 and state Steady.
C6_ProbeDoneOnSixthQueueEmpty ==
    (Len(levels) = 3 /\ last.state = "Probe" /\ last.level = 1 /\ obs.probeQE >= 1) =>
        /\ (last.signal.kind = "QueueEmpty" /\ actionChan = << >>) =>
              /\ obs.probeQE \in 1..NUM_PROBE_REQUIRED =>
                    /\ ProberActive(prober)
                    /\ prober.pace = (obs.probeQE + 1) * prober.delta
                    /\ probeChan = << >>
              /\ obs.probeQE = NUM_PROBE_REQUIRED => prober.pace = prober.target_pace
              /\ obs.probeQE = NUM_PROBE_REQUIRED + 1 => probeChan = <<ProbeDone>>
        /\ (last.signal.kind = "ProbeDone" /\ obs.probeQE = NUM_PROBE_REQUIRED + 1) =>
              /\ last.action = AdvanceConfig
              /\ profile.current = 2
              /\ adaptation.state = "Steady"

(***************************************************************************)
(* Claims on the byte counters (checked under SpecData)                    *)
(***************************************************************************)
\* C1: at every Monitor fire, in every interleaving of Pacer enqueues, Sink
\* writes and the Monitor's two counter swaps, the Monitor's queued_bytes is
\* non-negative (the unsigned update never underflows) and equals the sum of
\* the produced values read so far minus the sum of the consumed values read
\* so far.
C1_QueuedNeverUnderflows ==
    /\ monitor.status = "running"
    /\ monitor.queued >= 0
    /\ monitor.queued = monSum.produced - monSum.consumed

(***************************************************************************)
(* Claims on the control plane and the Pacer's action channel (Spec)       *)
(***************************************************************************)
\* a step in which the control plane consumes a signal
ControlStep ==
    \/ ControlMonitor(QueueEmpty)
    \/ \E rate \in CtlRates : ControlMonitor(QueueCongest(rate))
    \/ \E rate \in CtlRates : ControlRemote(rate)
    \/ ControlProbing

\* C13: every signal the control plane consumes yields one action, and that
\* action has been applied by the Pacer before the control plane processes
\* any later signal: whenever the control plane consumes a signal, no action
\* is waiting unapplied in the action channel.
C13_ActionAppliedBeforeNextSignal == [][ControlStep => actionChan = << >>]_vars

\* C16: when an AdjustConfig(rate) action is dispatched the level is
\* selected against the conservative rate K * rate with K in [0.6, 0.9]:
\* after the action the current level's bandwidth demand is at most K * rate
\* (checked here for the largest K, 0.9) or the level is 0.
C16_AdjustUsesConservativeRate ==
    last.action.kind = "AdjustConfig"
    => \/ profile.current = 0
       \/ levels[profile.current + 1] * 10 <= 9 * last.action.rate

\* C17: whenever start_send is called with at least BACKPRESSURE_BOUNDARY
\* bytes in the sink buffer and its flush attempt leaves the buffer at or
\* above the boundary, it returns NotReady with the same datum and encodes
\* nothing; a datum is encoded only when the buffer is below the boundary at
\* the time of encoding.
C17_BackpressureRejectsSend ==
    [][/\ (sink.pc = "send_flush" /\ sink'.pc = "poll"
              /\ BufLen(sink.buffer) >= BACKPRESSURE_BOUNDARY)
          => (sink'.held = sink.held /\ sink.held # NoFrame
                /\ sink'.buffer = sink.buffer)
       /\ BufLen(sink'.buffer) > BufLen(sink.buffer)
          => BufLen(sink.buffer) < BACKPRESSURE_BOUNDARY]_vars

\* C17 witness: start_send returned NotReady: send_all holds the rejected
\* datum and the buffer, still at the boundary or above, holds only the
\* frames encoded before.
C17_Witness ==
    /\ sink.pc = "poll"
    /\ sink.held # NoFrame
    /\ BufLen(sink.buffer) >= BACKPRESSURE_BOUNDARY
    /\ \A i \in 1..Len(sink.buffer) : sink.buffer[i].id # sink.held.id

\* C18: next_rate_delta() returns none exactly when the current level is the
\* last level, and the machine issues StartProbe only when the control-plane
\* profile is below the maximum level, so the dispatcher's expectation on
\* next_rate_delta never fails: the control plane panics only on a (state,
\* signal) pair without transition.
C18_StartProbeNeverAtMax ==
    /\ next_rate_delta(levels, profile).some = (profile.current # Len(levels) - 1)
    /\ last.action.kind = "StartProbe"
          => /\ ~last.max
             /\ last.level < Len(levels) - 1
             /\ profile.current = last.level
             /\ cpStatus = "running"
    /\ cpStatus = "panicked" => last.action.kind = "unimplemented"

\* C18 witness: StartProbe was issued below the maximum level and its
\* StartProbe message, with the target taken from next_rate_delta, waits for
\* the Pacer.
C18_Witness ==
    /\ last.action.kind = "StartProbe"
    /\ last.level = 1
    /\ Len(levels) = 3
    /\ actionChan = <<AdaptStartProbe(PROBE_EXTRA * (levels[3] - levels[2]))>>

\* C20: once the Steady QueueEmpty count is satisfied below the maximum level,
\* the next QueueEmpty yields StartProbe and moves to Probe; and a QueueEmpty
\* consumed right after the signal that yielded StartProbe yields
\* IncreaseProbePace and stays in Probe, so the two signals produce StartProbe
\* exactly once.
C20_TwoEmptiesStartProbeOnce ==
    [][ControlMonitor(QueueEmpty) =>
          /\ (/\ adaptation.state = "Steady"
               /\ adaptation.steady_count > STEADY_ENOUGH
               /\ ~is_max(levels, profile))
                 => /\ last'.action = StartProbe
                    /\ adaptation'.state = "Probe"
          /\ last.action.kind = "StartProbe"
                 => /\ adaptation.state = "Probe"
                    /\ last'.action = IncreaseProbePace
                    /\ adaptation'.state = "Probe"]_vars

\* C20 witness: the QueueEmpty after the one that yielded StartProbe was
\* consumed in Probe, and the two actions wait for the Pacer in that order.
C20_Witness ==
    /\ last.state = "Probe"
    /\ last.signal = QueueEmpty
    /\ last.action = IncreaseProbePace
    /\ adaptation.state = "Probe"
    /\ Len(actionChan) = 2
    /\ actionChan[1].kind = "StartProbe"
    /\ actionChan[2] = AdaptIncreaseProbePace

\* C21: a frame of the server whose mem does not parse as a ReceiverReport
\* is dropped and the control plane continues: it stays running, the
\* adaptation state is unchanged and no action is dispatched for the frame.
C21_UnparsableReportDropped ==
    [][\A mem \in RemoteMems :
          (RemoteFrame(mem) /\ ~from_mem(mem).ok)
             => /\ cpStatus' = "running"
                /\ adaptation' = adaptation
                /\ actionChan' = actionChan]_vars

\* C22: once the connection's inbound frame stream has ended, cleanly or
\* with an error, the statistics interval has been sent the cancel and emits
\* no further tick.
C22_IntervalCancelledAtEnd ==
    srv.conn # "open" => srv.stopper = "sent" /\ srv.lateTicks = 0

\* C30: the receiver accounts each datum by kind: a Live frame adds its size
\* to goodput and to throughput, a BwProbe (Dummy) to throughput only, and a
\* LatencyProbe to neither, only updating the net-latency window.
C30_AccountingByKind ==
    [][\A kind \in {"Live", "Dummy", "LatencyProbe"}, ok \in BOOLEAN :
          ServerFrame(kind, ok) =>
             /\ srv'.goodput.sample = srv.goodput.sample
                    + (IF kind = "Live" THEN FrameLen(kind) ELSE 0)
             /\ srv'.throughput.sample = srv.throughput.sample
                    + (IF kind \in {"Live", "Dummy"} THEN FrameLen(kind) ELSE 0)
             /\ kind = "LatencyProbe" => srv'.net_latency = srv.net_latency + 1]_vars

\* C23: when the connection is lost (the client's read half reaches end of
\* stream, or fails) the control-plane future eventually completes, so that
\* run() returns instead of continuing.
C23_ConnectionLossEndsControlPlane ==
    (tcp # "open") ~> (cpStatus # "running")

\* C24: when the Pacer sends a Live or BwProbe frame of a tick while the
\* sink is in backpressure (its buffer still at or above the boundary after
\* a flush attempt), the frame is dropped: it does not enter the channel to
\* the sink, and so is never written.
C24_BackpressureDropsFrames ==
    [][(/\ PacerSend
        /\ sink.pc = "poll"
        /\ sink.blocked
        /\ backpressure(sink.buffer)
        /\ Head(pacer.todo).kind \in {"Live", "BwProbe"})
          => (dataChan' = dataChan /\ enqueued' = enqueued)]_vars

\* the frames of a sequence of written chunks: adjacent chunks of one frame
\* are one frame, whose length is the sum of theirs
RECURSIVE MergeChunks(_)
MergeChunks(w) ==
    IF Len(w) <= 1 THEN w
    ELSE LET m == MergeChunks(Tail(w))
         IN  IF Head(w).id = Head(m).id
             THEN <<[Head(m) EXCEPT !.len = Head(w).len + Head(m).len]>> \o Tail(m)
             ELSE <<Head(w)>> \o m

\* C12: the frames written to the TCP stream appear in exactly the order in
\* which the Pacer enqueued them: the bytes on the wire are a prefix of the
\* enqueued frames laid end to end, so every frame but the last on the wire is
\* there whole, once, and the last one with at most its length; no frame is
\* reordered, duplicated or interleaved with another.
C12_WireInEnqueueOrder ==
    LET m == MergeChunks(wire)
    IN  /\ Len(m) <= Len(enqueued)
        /\ \A i \in 1..Len(m) :
              /\ m[i].id = enqueued[i].id
              /\ m[i].kind = enqueued[i].kind
              /\ IF i < Len(m) THEN m[i].len = enqueued[i].len
                 ELSE m[i].len <= enqueued[i].len

\* C12 witness: a LatencyProbe and two Live frames were enqueued and are all
\* on the wire, and partial writes cut them into more chunks than frames.
C12_Witness ==
    /\ Len(enqueued) = 3
    /\ enqueued[1].kind = "LatencyProbe"
    /\ MergeChunks(wire) = enqueued
    /\ Len(wire) > Len(enqueued)

\* C14: produced_bytes is incremented before a frame is enqueued and
\* consumed_bytes only after the stream accepted the bytes, so the queued
\* bytes a Monitor fire computes are at least the bytes waiting locally (the
\* frames in the channel plus the bytes in the sink buffer) - here at the
\* most favourable of the fire's three steps, the two swaps and the update.
C14_QueuedCoversWaiting ==
    monitor.status = "running" /\ monitor.queued >= monSum.waiting

(***************************************************************************)
(* Claims on the Monitor's estimate (checked under SpecMonitor)            *)
(***************************************************************************)
\* C15: a Monitor fire with queued_bytes previously 0 that reads produced =
\* 150000 bytes and consumed = 50000 bytes computes queued = 100000 bytes and
\* emits QueueCongest(3600, 200): rate 0.9 * 4000 kbps, latency 200 ms.
C15_CongestReportsNineTenthsOfRate ==
    (mon.fire.kind # "none" /\ mon.fire.queued = 0
        /\ mon.fire.produced = 150000 /\ mon.fire.consumed = 50000)
    => /\ mon.queued = 100000
       /\ mon.fire.kind = "QueueCongest"
       /\ mon.fire.rate_x100 = 3600 * 100
       /\ mon.fire.latency = 200

(***************************************************************************)
(* Claims on the codec (checked under SpecCodec)                           *)
(***************************************************************************)
\* C11: for every datum variant, encode writes exactly 8 + serialized_size
\* bytes, which is net_len; and a decode call in AwaitLen on a buffer that
\* holds exactly one encoded datum returns a datum equal to the original in
\* every field (type, payload, timestamp and len), consumes the whole buffer
\* and leaves the codec in AwaitLen.
C11_EncodeDecodeRoundTrip ==
    /\ \A i \in 1..Len(encoded) :
          /\ encoded[i].written = 8 + serialized_size(encoded[i].datum)
          /\ encoded[i].written = AsDatum_net_len(encoded[i].datum)
          /\ Len(encoded[i].bytes) = encoded[i].written
    /\ \A i \in 1..Len(encoded) :
          (lastDecode.ret # "none" /\ lastDecode.state = AwaitLen
                /\ lastDecode.buf = encoded[i].bytes)
             => /\ lastDecode.ret = "Some"
                /\ lastDecode.datum = encoded[i].datum
                /\ lastDecode.after = << >>
                /\ lastDecode.afterState = AwaitLen

\* C11 witness: a ReceiverCongest datum and a Live datum with a payload and
\* a fractional timestamp have each been encoded and decoded from a buffer
\* holding exactly that frame.
C11_Witness ==
    /\ Len(encoded) = 2
    /\ encoded[1].datum.t.tag = "ReceiverCongest"
    /\ encoded[2].datum.t.tag = "Live"
    /\ encoded[2].datum.t.level = 3
    /\ encoded[2].datum.mem # << >>
    /\ encoded[2].datum.ts.millis # 0
    /\ Len(decoded) = 2
    /\ lastDecode.state = AwaitLen
    /\ lastDecode.buf = encoded[2].bytes
    /\ lastDecode.ret = "Some"

IsProbeFrame(f) == f.kind = "BwProbe"

\* C19: while the Prober is inactive (created or stopped, and not started
\* since) next() returns nothing: its fields are zero, no tick holds a BwProbe
\* frame, and since it became inactive no BwProbe frame was enqueued and no
\* probe bytes were added to produced_bytes.
C19_InactiveProberAddsNothing ==
    probeObs.stopped =>
        /\ ~ProberActive(prober)
        /\ prober.pace = 0
        /\ \A i \in 1..Len(pacer.todo) : ~IsProbeFrame(pacer.todo[i])
        /\ probeObs.frames = 0
        /\ probeObs.bytes = 0

\* a probe ran and enqueued a BwProbe frame, was stopped, and a later tick
\* enqueued a Live frame with no probe before it
C19_Witness ==
    /\ probeObs.stopped
    /\ pacer.todo = << >>
    /\ Len(enqueued) >= 3
    /\ IsProbeFrame(enqueued[Len(enqueued) - 2])
    /\ enqueued[Len(enqueued) - 1].kind = "Live"
    /\ enqueued[Len(enqueued)].kind = "Live"

\* C25: on incomplete input decode returns None and keeps its position.  In
\* AwaitLen with fewer than 8 bytes it consumes nothing and stays in
\* AwaitLen; in AwaitLen with the length but a short payload it consumes the
\* 8 bytes of the length only and goes to AwaitPayload of that length; in
\* AwaitPayload(len) with fewer than len bytes it consumes nothing and stays
\* in AwaitPayload(len).  Between two calls the buffer and the state are the
\* ones the last call left.
C25_NeedMoreKeepsPosition ==
    /\ (lastDecode.ret # "none" /\ lastDecode.state = AwaitLen
           /\ Len(lastDecode.buf) < 8)
          => /\ lastDecode.ret = "None"
             /\ lastDecode.after = lastDecode.buf
             /\ lastDecode.afterState = AwaitLen
    /\ (lastDecode.ret # "none" /\ lastDecode.state = AwaitLen
           /\ Len(lastDecode.buf) >= 8
           /\ Len(lastDecode.buf) - 8 < FromBE(Take(lastDecode.buf, 8), 0))
          => /\ lastDecode.ret = "None"
             /\ lastDecode.after = Drop(lastDecode.buf, 8)
             /\ lastDecode.afterState = AwaitPayload(FromBE(Take(lastDecode.buf, 8), 0))
    /\ (lastDecode.ret # "none" /\ lastDecode.state.kind = "Payload"
           /\ Len(lastDecode.buf) < lastDecode.state.len)
          => /\ lastDecode.ret = "None"
             /\ lastDecode.after = lastDecode.buf
             /\ lastDecode.afterState = lastDecode.state
    /\ (lastDecode.ret = "None" /\ ~is_readable)
          => /\ decBuf = lastDecode.after
             /\ codecState = lastDecode.afterState

\* C25 witness: after a first frame was decoded, a decode call in
\* AwaitPayload of the second frame found some but not all of its payload
\* and returned None, as the call before it did.
C25_Witness ==
    /\ Len(decoded) = 1
    /\ lastDecode.ret = "None"
    /\ lastDecode.state.kind = "Payload"
    /\ Len(lastDecode.buf) >= 2
    /\ Len(lastDecode.buf) < lastDecode.state.len
    /\ codecState = lastDecode.state
    /\ decBuf = lastDecode.buf

\* the bytes added to consumed_bytes so far: the counter, and what the
\* Monitor swapped out of it
TotalCounted == consumed_bytes + monitor.consumed + monSum.consumed

\* the bytes start_send encoded into the buffer so far: the frames that left
\* the channel, but for the one send_all holds
TotalEncoded == BufLen(enqueued) - BufLen(dataChan) - sink.held.len

\* the bytes of a write that fetch_add has not counted yet
WrittenUncounted ==
    IF sink.pc \in {"flush_wrote", "send_flush_wrote"} THEN sink.n ELSE 0

\* C26: the total added to consumed_bytes equals the bytes the stream
\* accepted, which equals the bytes encoded into the buffer minus the bytes
\* still in it - after every start_send and poll_complete call, and at every
\* step inside them once the write in progress is counted and split off.
C26_ConsumedCountsDrainedBytes ==
    /\ TotalCounted + WrittenUncounted = BufLen(wire)
    /\ BufLen(wire) = TotalEncoded - BufLen(sink.buffer) + WrittenUncounted
    /\ sink.pc \in {"poll", "failed"} => WrittenUncounted = 0

\* C26 witness: a frame went out in two writes, a second frame is in the
\* buffer, and the Monitor has swapped the counter in between.
C26_Witness ==
    /\ sink.pc = "poll"
    /\ Len(wire) >= 2
    /\ wire[1].id = wire[2].id
    /\ sink.buffer # << >>
    /\ monSum.consumed > 0
    /\ consumed_bytes > 0

\* the estimated latency of a Monitor exceeds the congestion threshold:
\* queued * 8 / rate > 1.0 with rate = val * 8 / MONITOR_INTERVAL
Congested(m) ==
    IF m.rate_num = 0 THEN m.queued > 0
    ELSE m.queued * MONITOR_INTERVAL * Pow2(m.rate_exp) > m.rate_num

ProberZero(pr) ==
    /\ pr.target_in_kbps = 0
    /\ pr.target_pace = 0
    /\ pr.delta = 0
    /\ pr.pace = 0

\* C28: after the Pacer applied ToRate (AdjustConfig) or DecreaseDegradation
\* (AdvanceConfig), and until it applies a StartProbe, the Prober is inactive
\* with all its probe fields zero, no tick holds a BwProbe frame, and no
\* BwProbe frame was enqueued or counted since the action.
C28_LevelChangeStopsProbe ==
    probeObs.levelled =>
        /\ ProberZero(prober)
        /\ ~ProberActive(prober)
        /\ \A i \in 1..Len(pacer.todo) : pacer.todo[i].kind # "BwProbe"
        /\ probeObs.frames = 0
        /\ probeObs.bytes = 0

\* C28 witness: a probe ran and enqueued a BwProbe frame, the Pacer applied a
\* ToRate or DecreaseDegradation action, and the tick after it enqueued its
\* Live frame with no BwProbe frame before it
C28_Witness ==
    /\ probeObs.levelled
    /\ pacer.todo = << >>
    /\ Len(enqueued) >= 3
    /\ enqueued[Len(enqueued) - 2].kind = "BwProbe"
    /\ enqueued[Len(enqueued) - 1].kind = "Live"
    /\ enqueued[Len(enqueued)].kind = "Live"

\* C29: an IncreaseProbePace action handled by the Pacer either raises pace by
\* exactly delta and posts no signal, when pace < target_pace, or else leaves
\* the Prober unchanged and posts exactly one ProbeDone; no other step of the
\* Pacer posts a signal.
C29_IncreaseProbePace ==
    [][/\ PacerIncreaseProbePace =>
            IF prober.pace < prober.target_pace
            THEN /\ prober' = [prober EXCEPT !.pace = prober.pace + prober.delta]
                 /\ probeChan' = probeChan
            ELSE /\ prober' = prober
                 /\ probeChan' = Append(probeChan, ProbeDone)
       /\ probeChan' # probeChan =>
            /\ PacerIncreaseProbePace
            /\ ~(prober.pace < prober.target_pace)]_vars

\* C29 witness: a probe was started, raised to its target pace by
\* IncreaseProbePace actions, and one more posted the only ProbeDone
C29_Witness ==
    /\ ProberActive(prober)
    /\ prober.pace > prober.delta
    /\ prober.pace >= prober.target_pace
    /\ probeChan = <<ProbeDone>>

\* C31: every ReceiverReport the Reporter sent was sent on a Live frame whose
\* latency exceeded the tolerance bound; the first was sent more than 500 ms
\* after the Reporter was created and any two are more than 500 ms apart on
\* the receiver's clock.
C31_ReportsSpaced ==
    /\ \A i \in 1..Len(srv.reports) :
          /\ srv.reports[i].kind = "Live"
          /\ latency_is_high(srv.reports[i].net_delay, srv.reports[i].rate,
                             srv.reports[i].len, srv.reports[i].latency)
          /\ srv.reports[i].at - CreatedAt > 500000
    /\ \A i, j \in 1..Len(srv.reports) :
          i < j => srv.reports[j].at - srv.reports[i].at > 500000

\* C31 witness: after the first tick of the statistics interval, a second or
\* more after the Reporter was created, two reports were sent
C31_Witness ==
    /\ srv.ticks >= 1
    /\ Len(srv.reports) = 2
    /\ srv.reports[1].at - CreatedAt >= 1000000

\* C32: poll_complete classifies the outcomes of the write.  On WouldBlock
\* (of the write or of the flush) it returns NotReady with no error: the sink
\* goes on, nothing is added to consumed_bytes or written, and the buffer
\* holds exactly the bytes encoded and not yet written (start_send then
\* encodes its item if the buffer is below the boundary).  A write that
\* accepts no byte of a non-empty buffer fails the sink.  It returns Ready
\* only on an empty buffer, with every encoded byte written: a return that
\* leaves bytes in the buffer is the NotReady of a WouldBlock.
C32_PollCompleteOutcomes ==
    [][/\ (SinkWouldBlock \/ SinkFlushWouldBlock) =>
             /\ sink'.pc = "poll"
             /\ consumed_bytes' = consumed_bytes
             /\ wire' = wire
             /\ BufLen(wire) + BufLen(sink.buffer) = TotalEncoded
             /\ sink'.buffer = IF sink.pc = "send_flush" /\ ~backpressure(sink.buffer)
                               THEN Append(sink.buffer, sink.held)
                               ELSE sink.buffer
       /\ SinkWriteZero =>
             /\ sink.buffer # << >>
             /\ sink'.pc = "failed"
             /\ wire' = wire
       /\ SinkFlushed =>
             /\ sink.buffer = << >>
             /\ BufLen(wire) = TotalEncoded
       /\ (InPollComplete /\ sink'.pc = "poll" /\ sink.buffer # << >>) =>
             SinkWouldBlock]_vars

\* C32 witness: poll_complete wrote a part of a frame and returned NotReady
\* on the WouldBlock of the next write; the rest of the frame is in the buffer
C32_Witness ==
    /\ sink.pc = "poll"
    /\ wire # << >>
    /\ sink.buffer # << >>
    /\ Head(sink.buffer).id = wire[Len(wire)].id
    /\ BufLen(wire) + BufLen(sink.buffer) = TotalEncoded
    /\ TotalCounted = PartialWrite

\* the kinds of the frames of a sequence
KindsOf(frames) == [i \in 1..Len(frames) |-> frames[i].kind]

\* C33: a tick enqueues, in this order, a LatencyProbe exactly when it is
\* the tick number 1000 / period since the last one (with or without data),
\* and, only if the next datum size is not zero, a BwProbe of the Prober's
\* pace exactly when the Prober is active and then one Live frame of the
\* Source Adapter's current level and of that size; the frames are enqueued
\* in that order, and produced_bytes has the wire size of every frame
\* enqueued (and of the one being enqueued).
C33_TickFrameOrder ==
    [][/\ \A size \in DatumSizes : PacerTimer(size) =>
             LET second == pacer.ticks + 1 = 1000 \div period_in_ms
                 todo == pacer'.todo
                 n == Len(todo)
             IN  /\ pacer'.ticks = IF second THEN 0 ELSE pacer.ticks + 1
                 /\ KindsOf(todo) =
                        (IF second THEN <<"LatencyProbe">> ELSE << >>)
                        \o (IF size = 0 THEN << >>
                            ELSE (IF prober.target_pace > 0 THEN <<"BwProbe">> ELSE << >>)
                                 \o <<"Live">>)
                 /\ \A i \in 1..n :
                       /\ todo[i].kind = "LatencyProbe" => todo[i].len = DatumOverhead
                       /\ todo[i].kind = "BwProbe" =>
                             todo[i].len = prober.pace + DatumOverhead
                       /\ todo[i].kind = "Live" =>
                             /\ todo[i].len = size + DatumOverhead
                             /\ todo[i].level = srcProfile.current
       /\ PacerSend =>
             /\ enqueued' = Append(enqueued, Head(pacer.todo))
             /\ pacer'.todo = Tail(pacer.todo)
       /\ produced_bytes' = BufLen(enqueued')
                             + (IF pacer'.counted THEN Head(pacer'.todo).len ELSE 0)]_vars

\* C33 witness: one tick enqueued a LatencyProbe, a BwProbe and a Live frame
\* of level 1, in this order, and all three are counted
C33_Witness ==
    /\ pacer.todo = << >>
    /\ Len(enqueued) >= 3
    /\ LET n == Len(enqueued)
       IN  /\ KindsOf(SubSeq(enqueued, n - 2, n)) = <<"LatencyProbe", "BwProbe", "Live">>
           /\ enqueued[n].id = enqueued[n - 2].id + 2
           /\ enqueued[n].level = 1
    /\ produced_bytes = BufLen(enqueued)

\* C34: transit is never called with a (state, signal) pair that has no
\* transition: the last call did not reach unimplemented!(), and a ProbeDone
\* was consumed in state Probe.
C34_NoUnimplementedTransit ==
    /\ last.action.kind # "unimplemented"
    /\ last.signal.kind = "ProbeDone" => last.state = "Probe"

\* C35: whenever the action channel is empty the control plane's profile and
\* the Source Adapter's profile have the same current level and the same
\* sticky count, so is_max as the machine sees it is is_max of the level that
\* tags the Live frames.
C35_ProfileCopiesAgree ==
    actionChan = << >> =>
        /\ profile.current = srcProfile.current
        /\ profile.adjust_sticky_count = srcProfile.adjust_sticky_count
        /\ is_max(levels, profile) = is_max(levels, srcProfile)

\* C35 witness: both copies were advanced and then adjusted at the same
\* level, which used one unit of the sticky budget of each, and the Pacer
\* has applied every action
C35_Witness ==
    /\ actionChan = << >>
    /\ last.action.kind = "AdjustConfig"
    /\ srcProfile.current >= 1
    /\ srcProfile.adjust_sticky_count < ADJUST_STICKY_MAX
    /\ profile = srcProfile

\* C36: whenever the action channel is empty and the Prober is active, the
\* machine is in state Probe.
C36_ActiveProberMeansProbe ==
    (actionChan = << >> /\ ProberActive(prober)) => adaptation.state = "Probe"

\* C36 witness: the machine left Probe on a congestion signal while a probe
\* was running, and the Pacer has applied the StopProbe
C36_Witness ==
    /\ actionChan = << >>
    /\ last.state = "Probe"
    /\ last.action.kind = "StopProbe"
    /\ adaptation.state = "Steady"
    /\ ~ProberActive(prober)
    /\ probeObs.stopped

\* C37: whenever the machine is in Probe the control plane's level is below
\* the maximum, and no step that leaves the machine in Probe changes the
\* profile; the ProbeDone consumed in Probe yields AdvanceConfig, for which
\* advance_level returns the next level and the level is raised by one.
C37_ProbeLevelBelowMax ==
    [][/\ adaptation'.state = "Probe" => ~is_max(levels, profile')
       /\ (adaptation.state = "Probe" /\ adaptation'.state = "Probe") =>
             profile' = profile
       /\ (adaptation.state = "Probe" /\ ControlProbing) =>
             /\ last'.action = AdvanceConfig
             /\ advance_level(levels, profile).ret = Some(profile.current + 1)
             /\ profile'.current = profile.current + 1
             /\ adaptation'.state = "Steady"]_vars

\* C37 witness: a ProbeDone was consumed in Probe at level 1, after
\* IncreaseProbePace actions, and raised the level to 2
C37_Witness ==
    /\ last.state = "Probe"
    /\ last.signal = ProbeDone
    /\ last.level = 1
    /\ profile.current = 2
    /\ adaptation.state = "Steady"

\* C38: if from some point on the signal stream delivers only QueueEmpty and
\* ProbeDone signals, and every signal and action is processed, then from
\* some point on the level is the maximum and the machine is in Steady
\* (where a QueueEmpty at the maximum yields NoOp).
C38_QuietReachesMaxSteady ==
    (<>[][NextQuiet]_vars) =>
        <>[](/\ is_max(levels, profile)
             /\ adaptation.state = "Steady"
             /\ cpStatus = "running")

\* a run of at most n inc_pace calls on the Prober pr, with no stop in
\* between, ends with a call that returns false
RECURSIVE CompletesWithin(_, _)
CompletesWithin(pr, n) ==
    IF n = 0 THEN FALSE
    ELSE \/ ~inc_pace(pr).ret
         \/ CompletesWithin(inc_pace(pr).pr, n - 1)

\* C39: whenever the Prober is active, a run of IncreaseProbePace actions
\* with no stop in between makes inc_pace return false (and the Pacer post
\* ProbeDone) after NUM_PROBE_REQUIRED increases at most.
C39_ProbeCompletes ==
    ProberActive(prober) => CompletesWithin(prober, NUM_PROBE_REQUIRED + 1)

\* the datums FramedRead yields from a buffer that holds all the bytes:
\* decode is called again after every frame, until it returns no frame
RECURSIVE DecodeWhole(_, _)
DecodeWhole(state, buf) ==
    LET r == decode(state, buf)
    IN  IF r.ret = "Some" THEN <<r.datum>> \o DecodeWhole(r.state, r.buf)
        ELSE << >>

\* the bytes of the first n encoded frames, end to end
RECURSIVE FrameBytes(_)
FrameBytes(n) ==
    IF n = 0 THEN << >> ELSE FrameBytes(n - 1) \o encoded[n].bytes

\* the bytes the reader has been given so far, in chunks of any size
Received == Take(FrameBytes(Len(encoded)), Len(FrameBytes(Len(encoded))) - Len(encBuf))

\* C40: decoding does not depend on the chunks.  The datums decoded from the
\* chunks so far, followed by those a decode of the buffered bytes yields,
\* are the datums decoded from all the received bytes given at once; a
\* decode that returns a frame leaves the decoder in AwaitLen, and in
\* AwaitLen the bytes consumed are exactly those of the frames decoded, with
\* no byte of the next frame.
C40_ChunkIndependentDecoding ==
    lastDecode.ret # "Err" =>
        /\ decoded \o DecodeWhole(codecState, decBuf) = DecodeWhole(AwaitLen, Received)
        /\ lastDecode.ret = "Some" => lastDecode.afterState = AwaitLen
        /\ codecState = AwaitLen =>
              /\ Len(decoded) <= Len(encoded)
              /\ Len(Received) - Len(decBuf) = Len(FrameBytes(Len(decoded)))

\* C40 witness: two frames were decoded, the second completed from
\* AwaitPayload after its bytes came one at a time, and the result is the
\* one of decoding all the bytes at once
C40_Witness ==
    /\ Len(decoded) = 2
    /\ encBuf = << >>
    /\ decBuf = << >>
    /\ lastDecode.ret = "Some"
    /\ lastDecode.state.kind = "Payload"
    /\ Len(lastDecode.buf) = lastDecode.state.len
    /\ decoded = DecodeWhole(AwaitLen, FrameBytes(2))

====
